---- MODULE Spec2Model ----
(***************************************************************************)
(* Task-routing core of the diagnostic agent: the complexity scorer        *)
(* (semantic_task_scorer.py) and the dispatch decision engine with its     *)
(* bridge state / circuit breaker (autonomic_dispatcher.py).               *)
(*                                                                         *)
(* Scores and thresholds are exact rationals in units of 1/ScoreScale      *)
(* (0.7 = 672/960).  Time is in whole seconds.  A dispatch_task call is a  *)
(* sequence of steps of one caller thread; the environment (probe results, *)
(* executor outcomes, the clock) is chosen at each step.                   *)
(***************************************************************************)
EXTENDS Integers, Sequences, FiniteSets, TLC

VARIABLES
    enabled,              \* semantic_scorer.enabled
    threshold,            \* semantic_scorer.threshold
    embed_ok,             \* semantic_scorer.embed_ok
    REMOTE_ENABLED,       \* autonomic_dispatcher.REMOTE_ENABLED
    WAKE_ON_LAN_ENABLED,  \* autonomic_dispatcher.WAKE_ON_LAN_ENABLED
    DEV_MAC,              \* autonomic_dispatcher.DEV_MAC
    BRIDGE_STATUS,        \* autonomic_dispatcher.BRIDGE_STATUS
    now,                  \* time.time()
    log,                  \* agent_memory/recall_log.jsonl, one record per line
    pc,                   \* position of each caller thread in dispatch_task
    fr,                   \* locals of each thread's dispatch_task call
    streak,               \* observer: remote attempts failed in a row
    storage_ok,           \* writes below agent_memory/ succeed
    semantic_config,      \* agent_memory/semantic_config.json
    routing_config,       \* agent_memory/routing_config.json
    observed,             \* the last scorer or probe call and what it returned
    file,                 \* recall_log.jsonl as the sequence of writes it received
    writer,               \* the log lines each concurrent dispatch has yet to write
    setter,               \* position of each thread in set_enabled / set_threshold
    recent_queries,       \* stats_logger.recent_queries
    lock,                 \* stats_logger.lock: the thread that holds it
    stats_file,           \* agent_memory/performance_stats.jsonl
    caller                \* position of each thread in a StatsLogger method

vars == <<enabled, threshold, embed_ok, REMOTE_ENABLED, WAKE_ON_LAN_ENABLED,
          DEV_MAC, BRIDGE_STATUS, now, log, pc, fr, streak, storage_ok,
          semantic_config, routing_config, observed, file, writer, setter,
          recent_queries, lock, stats_file, caller>>

scorerVars == <<enabled, threshold, embed_ok>>
configVars == <<REMOTE_ENABLED, WAKE_ON_LAN_ENABLED, DEV_MAC>>
storeVars == <<storage_ok, semantic_config, routing_config>>
appendVars == <<file, writer>>
statsVars == <<recent_queries, lock, stats_file, caller>>
\* the scorer's setters and the statistics logger as they run on the request
\* threads, which the other specifications do not call
sideVars == <<setter, statsVars>>
\* the state of the dispatcher proper, which the specifications that exercise
\* one part of the program leave alone
dispatchVars == <<scorerVars, configVars, BRIDGE_STATUS, now, log, pc, fr,
                  streak>>

----------------------------------------------------------------------------
(* Bounds of the exploration *)

\* the clock is advanced by the environment up to this time
MaxTime == 1200
\* one environment clock step, in seconds
TickStep == 600
\* a new dispatch starts only while the log holds at most this many lines
MaxLogLen == 0
\* a new dispatch starts only while failure_count is at most this
MaxFailures == 3
\* dispatch_task calls each thread makes while appends are interleaved
MaxCalls == 1

----------------------------------------------------------------------------
(* Program constants *)

ScoreScale == 960
DefaultThreshold == 672
FailureLimit == 3
CooldownSeconds == 600
WakeSleepSeconds == 45
None == -1

Procs == {"t1", "t2"}

----------------------------------------------------------------------------
(* Complexity scorer *)

Min(a, b) == IF a <= b THEN a ELSE b
Max(a, b) == IF a >= b THEN a ELSE b

\* A task text is represented by what score() reads of it: its length, its
\* number of whitespace-separated tokens, the number of keywords of each
\* list that occur in it, and its best embedding similarities in hundredths.
Tasks ==
    { [name |-> "show status",
       len |-> 11, tokens |-> 2, heavy |-> 0, complexity |-> 0,
       container |-> 0, light |-> 2, heavy_sim |-> 20, light_sim |-> 75],
      [name |-> "analyze docker performance",
       len |-> 26, tokens |-> 3, heavy |-> 2, complexity |-> 2,
       container |-> 0, light |-> 0, heavy_sim |-> 45, light_sim |-> 20],
      [name |-> "list all running containers",
       len |-> 27, tokens |-> 4, heavy |-> 0, complexity |-> 1,
       container |-> 2, light |-> 1, heavy_sim |-> 25, light_sim |-> 55] }

EmbeddingDelta(t) ==
    (IF t.heavy_sim > 60 THEN 288
     ELSE IF t.heavy_sim > 40 THEN 192
     ELSE IF t.heavy_sim > 30 THEN 96
     ELSE 0)
    - (IF t.light_sim > 70 THEN 288
       ELSE IF t.light_sim > 50 THEN 192
       ELSE 0)

\* line 115 with a weight of 0.05 for each heavy keyword instead of 0.15
RawScoreHeavyLight(t, emb) ==
    LET length_norm == Min(3 * t.len, 240)
        token_norm == Min(16 * t.tokens, 240)
        containerPart == IF t.container > 0 THEN Min(576, 240 * t.container) ELSE 0
        heavyPart == IF t.heavy > 0 THEN Min(384, 48 * t.heavy) ELSE 0
        complexityPart == IF t.complexity > 0 THEN Min(288, 96 * t.complexity) ELSE 0
        lightPart == IF t.light > 0 /\ t.container = 0
                     THEN Min(384, 192 * t.light) ELSE 0
    IN  length_norm + token_norm + containerPart + heavyPart + complexityPart
        - lightPart + (IF emb THEN EmbeddingDelta(t) ELSE 0)

\* line 118 without the test of container_matches: the light keywords
\* are penalised in every text
RawScorePenalisingContainers(t, emb) ==
    LET length_norm == Min(3 * t.len, 240)
        token_norm == Min(16 * t.tokens, 240)
        containerPart == IF t.container > 0 THEN Min(576, 240 * t.container) ELSE 0
        heavyPart == IF t.heavy > 0 THEN Min(384, 144 * t.heavy) ELSE 0
        complexityPart == IF t.complexity > 0 THEN Min(288, 96 * t.complexity) ELSE 0
        lightPart == IF t.light > 0 THEN Min(384, 192 * t.light) ELSE 0
    IN  length_norm + token_norm + containerPart + heavyPart + complexityPart
        - lightPart + (IF emb THEN EmbeddingDelta(t) ELSE 0)

RawScore(t, emb) ==
    LET length_norm == Min(3 * t.len, 240)
        token_norm == Min(16 * t.tokens, 240)
        containerPart == IF t.container > 0 THEN Min(576, 240 * t.container) ELSE 0
        heavyPart == IF t.heavy > 0 THEN Min(384, 144 * t.heavy) ELSE 0
        complexityPart == IF t.complexity > 0 THEN Min(288, 96 * t.complexity) ELSE 0
        lightPart == IF t.light > 0 /\ t.container = 0
                     THEN Min(384, 192 * t.light) ELSE 0
    IN  length_norm + token_norm + containerPart + heavyPart + complexityPart
        - lightPart + (IF emb THEN EmbeddingDelta(t) ELSE 0)

\* line 145 without the clamp
scoreUnclamped(t, en, emb) ==
    IF ~en \/ t.len = 0 THEN 0 ELSE RawScore(t, emb)

\* line 62 without the test of self.enabled
scoreIgnoringEnabled(t, en, emb) ==
    IF t.len = 0 THEN 0
    ELSE Max(0, Min(ScoreScale, RawScore(t, emb)))

\* lines 61-145: 0.0 when the scorer is disabled or the text is empty (not
\* text), else the sum of the contributions clamped to [0, 1]
score(t, en, emb) ==
    IF ~en \/ t.len = 0 THEN 0
    ELSE Max(0, Min(ScoreScale, RawScore(t, emb)))

score_task(t) == score(t, enabled, embed_ok)

ThresholdInputs == {606, DefaultThreshold}

----------------------------------------------------------------------------
(* Bridge state, log records, call frames *)

InitialBridge ==
    [connected |-> FALSE, last_ping_time |-> None, fallback_used |-> FALSE,
     failure_count |-> 0, disabled_until |-> 0]

\* one line written by log_event(event_type, data); dest and reason are the
\* execute_remote and reason entries of a dispatch_decision's data
LogEvent(event_type, dest, reason) ==
    [writer |-> "log_event", event_type |-> event_type, dest |-> dest,
     reason |-> reason]

\* one line written by SemanticTaskScorer.log_result(task, score, routed_to)
LogResult(routed_to) ==
    [writer |-> "log_result", event_type |-> "", dest |-> routed_to,
     reason |-> ""]

\* log_event (317-331) catches a failed write and logs it: the line is lost
Written(recs) == IF storage_ok THEN recs ELSE <<>>

NoResult == [tag |-> "", text |-> <<>>]

\* no argument of BRIDGE_STATUS.update has been evaluated by the call
NoUpdate ==
    [connected |-> FALSE, last_ping_time |-> None, fallback_used |-> FALSE,
     failure_count |-> 0]

IdleFrame ==
    [task |-> "", force_local |-> FALSE, force_remote |-> FALSE,
     threshold |-> 0, score |-> 0, execute_remote |-> FALSE, reason |-> "",
     events |-> <<>>, result |-> NoResult,
     pre |-> InitialBridge, calledAt |-> 0, doneAt |-> 0, logAt |-> 0,
     update |-> NoUpdate]

\* one entry of a call's trace: an external operation the call invoked
\* (probe, wake, remote, local) and how it came out
Ev(op, out) == [op |-> op, out |-> out]

MainThread == "t1"

----------------------------------------------------------------------------
(* Persistent storage: the JSON documents below agent_memory/ *)

\* a JSON value as json.dump writes it and json.load reads it back: its JSON
\* type and its number (true is 1 and false is 0, as in Python); a key that
\* the document does not have is "absent"
JsonBool(b) == [type |-> "bool", num |-> IF b THEN 1 ELSE 0]
JsonNumber(x) == [type |-> "number", num |-> x]
JsonAbsent == [type |-> "absent", num |-> 0]

\* Python's bool(v) and float(v) of a loaded JSON boolean or number
PyBool(j) == j.num # 0
PyFloat(j) == IF j.type = "bool" THEN j.num * ScoreScale ELSE j.num

\* _save_config writing the enabled flag only
ConfigDocumentEnabledOnly(en, th) ==
    [state |-> "ok", enabled |-> JsonBool(en), threshold |-> JsonAbsent]

\* _save_config, lines 28-30: the document written to semantic_config.json
ConfigDocument(en, th) ==
    [state |-> "ok", enabled |-> JsonBool(en), threshold |-> JsonNumber(th)]

\* semantic_config.json does not exist, or does not parse
MissingConfig ==
    [state |-> "missing", enabled |-> JsonAbsent, threshold |-> JsonAbsent]
CorruptConfig ==
    [state |-> "corrupt", enabled |-> JsonAbsent, threshold |-> JsonAbsent]

\* _load_config, lines 16-23: the defaults, updated from the stored document
\* when it exists and parses
LoadedConfig(doc) ==
    [enabled |-> IF doc.state = "ok" /\ doc.enabled.type # "absent"
                 THEN doc.enabled ELSE JsonBool(TRUE),
     threshold |-> IF doc.state = "ok" /\ doc.threshold.type # "absent"
                   THEN doc.threshold ELSE JsonNumber(DefaultThreshold)]

\* lines 59-60: the peer address of the routing record
DEV_HOST == "192.168.1.100"
DEV_PORT == 22

\* save_routing_config writing the flag as it was read at import (line 63)
RoutingDocumentAtImport(wol, mac) ==
    [delegation_threshold |-> JsonNumber(DefaultThreshold),
     wake_on_lan_enabled |-> JsonBool(TRUE),
     dev_machine_mac |-> mac,
     dev_machine_ip |-> DEV_HOST,
     dev_machine_port |-> DEV_PORT]

\* save_routing_config, lines 78-84: the routing record written to
\* routing_config.json; routing (line 58) holds a delegation_threshold
RoutingDocument(wol, mac) ==
    [delegation_threshold |-> JsonNumber(DefaultThreshold),
     wake_on_lan_enabled |-> JsonBool(wol),
     dev_machine_mac |-> mac,
     dev_machine_ip |-> DEV_HOST,
     dev_machine_port |-> DEV_PORT]

\* no scorer or probe call has been made yet
NoCall == [fn |-> "", arg |-> "", out |-> ""]

\* a dispatch that is not writing to the log
IdleWriter == [todo |-> <<>>, buf |-> <<>>, calls |-> 0]

\* a thread that is in neither setter of the scorer; doc is the dictionary
\* _save_config has built
IdleSetter == [fn |-> "", at |-> "idle", doc |-> MissingConfig]

\* stats_logger.lock is not held
Unlocked == ""

\* a thread that is in no method of the statistics logger
\* (found is the position of the entry log_query_complete matched, ret the
\* kind of value returned, pre_queries and pre_file what the thread found
\* when it got the lock)
IdleCaller ==
    [fn |-> "", at |-> "idle", query_id |-> "", destination |-> "",
     found |-> 0, ret |-> "", total_queries |-> 0,
     pre_queries |-> <<>>, pre_file |-> <<>>]

\* no thread is in a setter or in the statistics logger, whose object is as
\* StatsLogger.__init__ (17-38) leaves it
SideIdle ==
    /\ setter = [p \in Procs |-> IdleSetter]
    /\ recent_queries = <<>>
    /\ lock = Unlocked
    /\ stats_file = <<>>
    /\ caller = [p \in Procs |-> IdleCaller]

----------------------------------------------------------------------------
(* Initial state: the module-level state right after import *)

Init ==
    /\ enabled = TRUE
    /\ threshold = DefaultThreshold
    /\ embed_ok = FALSE
    /\ REMOTE_ENABLED \in BOOLEAN
    /\ WAKE_ON_LAN_ENABLED = TRUE
    /\ DEV_MAC \in {"", "A1:B2:C3:D4:E5:F6"}
    /\ BRIDGE_STATUS = InitialBridge
    /\ now = 0
    /\ log = <<>>
    /\ pc = [p \in Procs |-> "idle"]
    /\ fr = [p \in Procs |-> IdleFrame]
    /\ streak = 0
    /\ storage_ok = TRUE
    /\ semantic_config = ConfigDocument(enabled, threshold)
    /\ routing_config = RoutingDocument(WAKE_ON_LAN_ENABLED, DEV_MAC)
    /\ observed = NoCall
    /\ file = <<>>
    /\ writer = [p \in Procs |-> IdleWriter]
    /\ SideIdle

----------------------------------------------------------------------------
(* dispatch_task *)

\* the check of line 158 left out
FlagsConflictNever(fl, frm) == FALSE

\* line 158: the conflicting-flags check
FlagsConflict(fl, frm) == fl /\ frm

\* line 173 comparing with > instead of >=
DecideStrict(s, th, fl, frm) ==
    IF fl THEN [execute_remote |-> FALSE, reason |-> "Forced local execution"]
    ELSE IF frm THEN [execute_remote |-> TRUE, reason |-> "Forced remote execution"]
    ELSE IF BRIDGE_STATUS.disabled_until > now
         THEN [execute_remote |-> FALSE,
               reason |-> "Remote delegation temporarily disabled"]
         ELSE [execute_remote |-> (s > th /\ REMOTE_ENABLED),
               reason |-> "Task score vs threshold"]

\* lines 166-168 left out: force_local is not looked at
DecideNoForceLocal(s, th, fl, frm) ==
    IF frm THEN [execute_remote |-> TRUE, reason |-> "Forced remote execution"]
    ELSE IF BRIDGE_STATUS.disabled_until > now
         THEN [execute_remote |-> FALSE,
               reason |-> "Remote delegation temporarily disabled"]
         ELSE [execute_remote |-> (s >= th /\ REMOTE_ENABLED),
               reason |-> "Task score vs threshold"]

\* line 174 comparing with >=: the breaker still open at the instant
\* disabled_until
DecideOpenAtExpiry(s, th, fl, frm) ==
    IF fl THEN [execute_remote |-> FALSE, reason |-> "Forced local execution"]
    ELSE IF frm THEN [execute_remote |-> TRUE, reason |-> "Forced remote execution"]
    ELSE IF BRIDGE_STATUS.disabled_until >= now
         THEN [execute_remote |-> FALSE,
               reason |-> "Remote delegation temporarily disabled"]
         ELSE [execute_remote |-> (s >= th /\ REMOTE_ENABLED),
               reason |-> "Task score vs threshold"]

\* the destination and reason computed by lines 161-176
Decide(s, th, fl, frm) ==
    IF fl THEN [execute_remote |-> FALSE, reason |-> "Forced local execution"]
    ELSE IF frm THEN [execute_remote |-> TRUE, reason |-> "Forced remote execution"]
    ELSE IF BRIDGE_STATUS.disabled_until > now
         THEN [execute_remote |-> FALSE,
               reason |-> "Remote delegation temporarily disabled"]
         ELSE [execute_remote |-> (s >= th /\ REMOTE_ENABLED),
               reason |-> "Task score vs threshold"]

\* the probes of a call's trace, in order
ProbesOf(evs) == SelectSeq(evs, LAMBDA e : e.op = "probe")

\* a remote attempt failed: the peer was not reached (the last probe failed)
\* or the remote executor ran and did not exit with code 0
AttemptFailed(evs) ==
    \/ \E i \in 1..Len(evs) : evs[i].op = "remote" /\ evs[i].out # "ok"
    \/ /\ ProbesOf(evs) # <<>>
       /\ ProbesOf(evs)[Len(ProbesOf(evs))].out = "down"

\* observer of finished dispatches that chose remote: the number of remote
\* attempts that failed in a row, a [REMOTE] result being the success that
\* ends the run; counted up to FailureLimit
StreakAfter(f, evs, tag) ==
    IF ~f.execute_remote THEN streak
    ELSE IF tag = "[REMOTE]" THEN 0
    ELSE IF AttemptFailed(evs) THEN Min(streak + 1, FailureLimit)
    ELSE streak

\* line 193 without its test: the peer is probed whatever was decided
AfterDecisionAlwaysProbe(execute_remote) == "probe"

\* lines 193 and 224-225: a dispatch decided for the peer goes on to the
\* probe, any other straight to the local executor
AfterDecision(execute_remote) == IF execute_remote THEN "probe" ELSE "local"

\* dispatch_task without the log_event call of lines 178-185: only the
\* scorer's line is written on entry
DecisionLinesUnrecorded(routed, reason) == <<LogResult(routed)>>

\* what dispatch_task writes between its decision and the first probe or
\* executor: the dispatch_decision record (178-185), then the scorer's
\* record of the task (187-191)
DecisionLines(routed, reason) ==
    <<LogEvent("dispatch_decision", routed, reason), LogResult(routed)>>

\* lines 146-191: reject conflicting flags, else score, decide and log; a
\* failed write is caught inside log_event (329-330) but not around
\* semantic_scorer.log_result (187-191), whose OSError leaves dispatch_task
Call(p, t, fl, frm) ==
    /\ pc[p] = "idle"
    /\ FlagsConflict(fl, frm) \/ Len(log) <= MaxLogLen
    /\ BRIDGE_STATUS.failure_count <= MaxFailures
    /\ now <= MaxTime
    /\ IF FlagsConflict(fl, frm)
       THEN /\ pc' = [pc EXCEPT ![p] = "raised"]
            /\ fr' = [fr EXCEPT ![p] =
                        [IdleFrame EXCEPT !.task = t.name, !.force_local = fl,
                            !.force_remote = frm,
                            !.result = [tag |-> "ValueError",
                                        text |-> <<"Cannot force both local and remote execution">>],
                            !.pre = BRIDGE_STATUS, !.calledAt = now,
                            !.logAt = Len(log)]]
            /\ UNCHANGED log
       ELSE LET th == threshold
                s == score_task(t)
                d == Decide(s, th, fl, frm)
                routed == IF d.execute_remote THEN "dev" ELSE "local"
            IN  /\ log' = log \o Written(DecisionLines(routed, d.reason))
                /\ fr' = [fr EXCEPT ![p] =
                            [IdleFrame EXCEPT !.task = t.name, !.force_local = fl,
                                !.force_remote = frm, !.threshold = th,
                                !.score = s,
                                !.execute_remote = d.execute_remote,
                                !.reason = d.reason,
                                !.result = IF storage_ok THEN NoResult
                                           ELSE [tag |-> "OSError",
                                                 text |-> <<"log_result">>],
                                !.pre = BRIDGE_STATUS, !.calledAt = now,
                                !.logAt = Len(log)]]
                /\ pc' = [pc EXCEPT ![p] =
                            IF ~storage_ok THEN "raised"
                            ELSE AfterDecision(d.execute_remote)]
    /\ UNCHANGED <<scorerVars, configVars, BRIDGE_STATUS, now, streak,
                   storeVars, observed, appendVars, sideVars>>

\* web_agent.dispatch_force, lines 596-628: the HTTP handler answers 400 to
\* conflicting flags itself and otherwise calls dispatch_task
dispatch_force(p, t, fl, frm) ==
    IF fl /\ frm
    THEN /\ pc[p] = "idle"
         /\ pc' = [pc EXCEPT ![p] = "raised"]
         /\ fr' = [fr EXCEPT ![p] =
                     [IdleFrame EXCEPT !.task = t.name, !.force_local = fl,
                         !.force_remote = frm,
                         !.result = [tag |-> "HTTP 400",
                                     text |-> <<"Cannot force both local and remote execution">>],
                         !.pre = BRIDGE_STATUS, !.calledAt = now,
                         !.logAt = Len(log)]]
         /\ UNCHANGED <<scorerVars, configVars, BRIDGE_STATUS, now, log, streak,
                        storeVars, observed, appendVars, sideVars>>
    ELSE Call(p, t, fl, frm)

\* lines 195-200: the bridge update after a successful first probe
ProbeSuccessUpdate(b) ==
    [b EXCEPT !.connected = TRUE, !.last_ping_time = now,
              !.fallback_used = FALSE, !.failure_count = 0]

\* lines 203-208: the bridge update after a failed first probe
ProbeFailureUpdate(b) ==
    [b EXCEPT !.connected = FALSE, !.last_ping_time = now,
              !.fallback_used = TRUE, !.failure_count = @ + 1]

\* lines 194-209: the first liveness probe and the bridge update it drives
Probe(p, reachable) ==
    /\ pc[p] = "probe"
    /\ fr' = [fr EXCEPT ![p].events =
                Append(@, Ev("probe", IF reachable THEN "up" ELSE "down"))]
    /\ IF reachable
       THEN /\ BRIDGE_STATUS' = ProbeSuccessUpdate(BRIDGE_STATUS)
            /\ pc' = [pc EXCEPT ![p] = "remote"]
            /\ UNCHANGED log
       ELSE /\ BRIDGE_STATUS' = ProbeFailureUpdate(BRIDGE_STATUS)
            /\ log' = log \o Written(<<LogEvent("bridge_unreachable", "", "")>>)
            /\ pc' = [pc EXCEPT ![p] = "wake"]
    /\ UNCHANGED <<scorerVars, configVars, now, streak,
                   storeVars, observed, appendVars, sideVars>>

\* time.sleep(d) returns no earlier than d seconds later; the clock is read
\* on the TickStep grid, so it returns at the first grid instant that late
AfterSleep(t, d) == ((t + d + TickStep - 1) \div TickStep) * TickStep

\* line 211 without its WAKE_ON_LAN_ENABLED test
WakeAttemptedIgnoringFlag == DEV_MAC # ""

\* line 211 and line 120: a wake is attempted iff wake-on-LAN is enabled and
\* a hardware address is configured
WakeAttempted == WAKE_ON_LAN_ENABLED /\ DEV_MAC # ""

\* lines 212-216 without the failure_count reset
WakeSuccessUpdateKeepCount(b) ==
    [b EXCEPT !.connected = TRUE, !.fallback_used = FALSE]

\* lines 212-216: the bridge update after a successful wake
WakeSuccessUpdate(b) ==
    [b EXCEPT !.connected = TRUE, !.fallback_used = FALSE,
              !.failure_count = 0]

\* line 219 tripping one failure early
BreakerTripsEarly(b) == b.failure_count >= FailureLimit - 1

\* line 219: the test that guards the only write of disabled_until (220)
BreakerTrips(b) == b.failure_count >= FailureLimit

\* lines 211-223 with attempt_wake_and_retry (118-124): wake and re-probe,
\* else trip the breaker if due and fall back to local
WakeOrFallback(p, sent, reachable) ==
    /\ pc[p] = "wake"
    /\ LET woke == WakeAttempted /\ reachable
           t1 == IF WakeAttempted THEN AfterSleep(now, WakeSleepSeconds) ELSE now
           ev == IF WakeAttempted
                 THEN <<Ev("wake", IF sent THEN "sent" ELSE "failed"),
                        Ev("probe", IF reachable THEN "up" ELSE "down")>>
                 ELSE <<>>
       IN  /\ now' = t1
           /\ fr' = [fr EXCEPT ![p].events = @ \o ev]
           /\ IF woke
              THEN /\ BRIDGE_STATUS' = WakeSuccessUpdate(BRIDGE_STATUS)
                   /\ pc' = [pc EXCEPT ![p] = "remote"]
                   /\ UNCHANGED log
              ELSE /\ IF BreakerTrips(BRIDGE_STATUS)
                      THEN /\ BRIDGE_STATUS' =
                                [BRIDGE_STATUS EXCEPT
                                    !.disabled_until = t1 + CooldownSeconds]
                           /\ log' = log \o Written(
                                <<LogEvent("bridge_auto_disabled", "", ""),
                                  LogEvent("fallback", "", "")>>)
                      ELSE /\ UNCHANGED BRIDGE_STATUS
                           /\ log' = log \o
                                Written(<<LogEvent("fallback", "", "")>>)
                   /\ pc' = [pc EXCEPT ![p] = "local"]
    /\ UNCHANGED <<scorerVars, configVars, streak,
                   storeVars, observed, appendVars, sideVars>>

\* what the remote executor can do: exit 0, exit non-zero, run into the 30 s
\* timeout, or fail to run at all (transport error)
RemoteOutcomes == {"ok", "nonzero", "timeout", "error"}

\* line 279 without the exit-code test: any completed run counts as success
RemoteSucceededLax(o) == o \in {"ok", "nonzero"}

\* line 279: result.returncode == 0
RemoteSucceeded(o) == o = "ok"

\* lines 286-314: the event logged for each kind of remote failure
RemoteErrorEvent(o) ==
    CASE o = "nonzero" -> "remote_execution_error"
      [] o = "timeout" -> "remote_execution_timeout"
      [] OTHER -> "remote_dispatch_error"

\* the handler of lines 306-314 missing: a transport error leaves run_remote
RemoteFailureNextRaise(o) == IF o = "error" THEN "raised" ELSE "local"

\* a remote execution that timed out being run again instead of handed to
\* the local executor
RemoteFailureNextRetry(o) == IF o = "timeout" THEN "remote" ELSE "local"

\* lines 294, 304, 314: where the call goes after a remote failure
RemoteFailureNext(o) == "local"

\* run_remote, lines 255-314
run_remote(p, o) ==
    /\ pc[p] = "remote"
    /\ IF ~REMOTE_ENABLED
       THEN /\ pc' = [pc EXCEPT ![p] = "local"]
            /\ UNCHANGED <<fr, log, streak>>
       ELSE IF RemoteSucceeded(o)
            THEN /\ log' = log \o
                            Written(<<LogEvent("remote_execution", "", "")>>)
                 /\ fr' = [fr EXCEPT ![p].events = Append(@, Ev("remote", o)),
                                     ![p].result = [tag |-> "[REMOTE]",
                                                    text |-> <<"stdout">>],
                                     ![p].doneAt = now]
                 /\ pc' = [pc EXCEPT ![p] = "done"]
                 /\ streak' = StreakAfter(fr[p], fr'[p].events, "[REMOTE]")
            ELSE /\ log' = log \o
                            Written(<<LogEvent(RemoteErrorEvent(o), "", "")>>)
                 /\ fr' = [fr EXCEPT ![p].events = Append(@, Ev("remote", o))]
                 /\ pc' = [pc EXCEPT ![p] = RemoteFailureNext(o)]
                 /\ UNCHANGED streak
    /\ UNCHANGED <<scorerVars, configVars, BRIDGE_STATUS, now,
                   storeVars, observed, appendVars, sideVars>>

\* the messages of the exceptions the local executor can raise
LocalErrors == {"agent unavailable", "model failure"}
LocalOutcomes == {"ok"} \cup LocalErrors

\* line 252 returning the marker without the error message
LocalResultNoMessage(o) ==
    IF o = "ok"
    THEN [tag |-> "[LOCAL]", text |-> <<"result">>]
    ELSE [tag |-> "[LOCAL ERROR]", text |-> <<"Local execution failed: ">>]

\* lines 243 and 246-252: the string run_local returns
LocalResult(o) ==
    IF o = "ok"
    THEN [tag |-> "[LOCAL]", text |-> <<"result">>]
    ELSE [tag |-> "[LOCAL ERROR]", text |-> <<"Local execution failed: ", o>>]

\* run_local logging local_execution whatever the executor did
LocalEventAlwaysDone(o) == "local_execution"

\* lines 237-241 and 246-249: the event run_local logs before it returns
LocalEvent(o) ==
    IF o = "ok" THEN "local_execution" ELSE "local_execution_error"

\* run_local, lines 228-252
run_local(p, o) ==
    /\ pc[p] = "local"
    /\ log' = log \o
            Written(<<LogEvent(LocalEvent(o), "", "")>>)
    /\ fr' = [fr EXCEPT ![p].events = Append(@, Ev("local", o)),
                        ![p].result = LocalResult(o),
                        ![p].doneAt = now]
    /\ streak' = StreakAfter(fr[p], fr'[p].events, LocalResult(o).tag)
    /\ pc' = [pc EXCEPT ![p] = "done"]
    /\ UNCHANGED <<scorerVars, configVars, BRIDGE_STATUS, now,
                   storeVars, observed, appendVars, sideVars>>

\* the caller takes the result (or the error) and the thread is free again
Return(p) ==
    /\ pc[p] \in {"done", "raised"}
    /\ pc' = [pc EXCEPT ![p] = "idle"]
    /\ fr' = [fr EXCEPT ![p] = IdleFrame]
    /\ UNCHANGED <<scorerVars, configVars, BRIDGE_STATUS, now, log, streak,
                   storeVars, observed, appendVars, sideVars>>

----------------------------------------------------------------------------
(* Configuration setters and the environment *)

\* what is in a file after open(path, "w") and json.dump of doc: the write
\* replaces the content, or fails (the call raises) and leaves it
Stored(old, doc) == IF storage_ok THEN doc ELSE old

\* SemanticTaskScorer.set_threshold, lines 57-59, with _save_config
set_threshold(x) ==
    /\ threshold' = x
    /\ semantic_config' = Stored(semantic_config, ConfigDocument(enabled, x))
    /\ UNCHANGED <<enabled, embed_ok, configVars, BRIDGE_STATUS, now, log, pc,
                   fr, streak, storage_ok, routing_config, observed,
                   appendVars, sideVars>>

\* SemanticTaskScorer.set_enabled, lines 53-55, with _save_config
set_enabled(b) ==
    /\ enabled' = b
    /\ semantic_config' = Stored(semantic_config, ConfigDocument(b, threshold))
    /\ UNCHANGED <<threshold, embed_ok, configVars, BRIDGE_STATUS, now, log,
                   pc, fr, streak, storage_ok, routing_config, observed,
                   appendVars, sideVars>>

\* set_wake_on_lan, lines 89-94, with save_routing_config (76-86)
set_wake_on_lan(b) ==
    /\ WAKE_ON_LAN_ENABLED' = b
    /\ routing_config' = Stored(routing_config, RoutingDocument(b, DEV_MAC))
    /\ UNCHANGED <<scorerVars, REMOTE_ENABLED, DEV_MAC, BRIDGE_STATUS, now,
                   log, pc, fr, streak, storage_ok, semantic_config, observed,
                   appendVars, sideVars>>

\* get_bridge_status, lines 127-138; the last ping time is reported only
\* when it is truthy (129)
get_bridge_status ==
    [status |-> IF BRIDGE_STATUS.connected THEN "connected" ELSE "disconnected",
     last_ping_time |-> IF BRIDGE_STATUS.last_ping_time \in {None, 0}
                        THEN None ELSE BRIDGE_STATUS.last_ping_time,
     fallback_used |-> BRIDGE_STATUS.fallback_used,
     wake_on_lan_enabled |-> WAKE_ON_LAN_ENABLED,
     disabled_until |-> BRIDGE_STATUS.disabled_until]

\* wall-clock time passes
Tick ==
    /\ now + TickStep <= MaxTime
    /\ now' = now + TickStep
    /\ UNCHANGED <<scorerVars, configVars, BRIDGE_STATUS, log, pc, fr, streak,
                   storeVars, observed, appendVars, sideVars>>

AllIdle == \A p \in Procs : pc[p] = "idle"

\* the log file is archived away by an external rotation while no dispatch
\* is running; the next append re-creates it
RotateLog ==
    /\ AllIdle
    /\ log # <<>>
    /\ log' = <<>>
    /\ UNCHANGED <<scorerVars, configVars, BRIDGE_STATUS, now, pc, fr, streak,
                   storeVars, observed, appendVars, sideVars>>

----------------------------------------------------------------------------
(* Specification: the operations run one at a time on the main thread *)

Next ==
    \/ \E t \in Tasks, fl \in BOOLEAN, frm \in BOOLEAN :
            AllIdle /\ Call(MainThread, t, fl, frm)
    \/ \E t \in Tasks, fl \in BOOLEAN, frm \in BOOLEAN :
            AllIdle /\ dispatch_force(MainThread, t, fl, frm)
    \/ \E p \in Procs, r \in BOOLEAN : Probe(p, r)
    \/ \E p \in Procs, sent \in BOOLEAN, r \in BOOLEAN : WakeOrFallback(p, sent, r)
    \/ \E p \in Procs, o \in RemoteOutcomes : run_remote(p, o)
    \/ \E p \in Procs, o \in LocalOutcomes : run_local(p, o)
    \/ \E p \in Procs : Return(p)
    \/ \E x \in ThresholdInputs : AllIdle /\ set_threshold(x)
    \/ \E b \in BOOLEAN : AllIdle /\ set_wake_on_lan(b)
    \/ Tick
    \/ RotateLog

Spec == Init /\ [][Next]_vars

----------------------------------------------------------------------------
(* Specification with progress: a dispatch that was started goes on.  Each *)
(* step of dispatch_task is a bounded operation: the probe connects with   *)
(* timeout=3 (line 100), the wake sleeps 45 s (123), the remote command    *)
(* runs with timeout=30 (276); the local executor is taken to return.      *)

\* the next step of the dispatch_task call of thread p
Continue(p) ==
    \/ \E r \in BOOLEAN : Probe(p, r)
    \/ \E sent \in BOOLEAN, r \in BOOLEAN : WakeOrFallback(p, sent, r)
    \/ \E o \in RemoteOutcomes : run_remote(p, o)
    \/ \E o \in LocalOutcomes : run_local(p, o)

\* dispatch_task called again and again on the main thread while the clock
\* runs and the log is rotated; the settings stay as they were at import
NextLive ==
    \/ \E t \in Tasks, fl \in BOOLEAN, frm \in BOOLEAN :
            AllIdle /\ Call(MainThread, t, fl, frm)
    \/ \E p \in Procs : Continue(p)
    \/ \E p \in Procs : Return(p)
    \/ Tick
    \/ RotateLog

SpecLive ==
    Init /\ [][NextLive]_vars /\ \A p \in Procs : WF_vars(Continue(p))

----------------------------------------------------------------------------
(* The log under the program's own housekeeping: web_agent runs            *)
(* cleanup_logs every hour on a background thread (_periodic_cleanup,      *)
(* 733-742), the only code of the program that rewrites recall_log.jsonl.  *)

\* line 235: the entry's timestamp is parsed; a log_result line carries none,
\* fromisoformat("") raises ValueError and the line is dropped (250-251)
HasTimestamp(r) == r.writer = "log_event"

\* line 247 with timestamps that compare: every dated entry is kept
CleanupAbortsNever(l) == FALSE

\* lines 238-247: a log_event line has no task or result text, so it is not
\* a successful session, and line 247 compares its timezone-aware time with
\* the naive cutoff_date: TypeError, which line 250 does not catch; the
\* handler of line 270 ends the cleanup before the file is rewritten
CleanupAborts(l) == \E i \in 1..Len(l) : HasTimestamp(l[i])

\* cleanup_logs, lines 212-271; big: the file has reached MAX_LOG_SIZE_MB
\* (222).  Every entry of the model is younger than MAX_LOG_DAYS.
cleanup_logs(big) ==
    /\ log # <<>>
    /\ log' = IF big /\ storage_ok /\ ~CleanupAborts(log)
              THEN SelectSeq(log, HasTimestamp)
              ELSE log
    /\ UNCHANGED <<scorerVars, configVars, BRIDGE_STATUS, now, pc, fr, streak,
                   storeVars, observed, appendVars, sideVars>>

NextAudit ==
    \/ \E t \in Tasks, fl \in BOOLEAN, frm \in BOOLEAN :
            AllIdle /\ Call(MainThread, t, fl, frm)
    \/ \E p \in Procs, r \in BOOLEAN : Probe(p, r)
    \/ \E p \in Procs, sent \in BOOLEAN, r \in BOOLEAN : WakeOrFallback(p, sent, r)
    \/ \E p \in Procs, o \in RemoteOutcomes : run_remote(p, o)
    \/ \E p \in Procs, o \in LocalOutcomes : run_local(p, o)
    \/ \E p \in Procs : Return(p)
    \/ \E big \in BOOLEAN : cleanup_logs(big)

SpecAudit == Init /\ [][NextAudit]_vars

----------------------------------------------------------------------------
(* Dispatching while the storage below agent_memory/ fails and recovers    *)
(* (disk full, directory not writable)                                     *)

\* the storage starts or stops accepting writes
StorageChange ==
    /\ storage_ok' = ~storage_ok
    /\ UNCHANGED <<scorerVars, configVars, BRIDGE_STATUS, now, log, pc, fr,
                   streak, semantic_config, routing_config, observed,
                   appendVars, sideVars>>

NextStorage ==
    \/ \E t \in Tasks, fl \in BOOLEAN, frm \in BOOLEAN :
            AllIdle /\ Call(MainThread, t, fl, frm)
    \/ \E p \in Procs, r \in BOOLEAN : Probe(p, r)
    \/ \E p \in Procs, sent \in BOOLEAN, r \in BOOLEAN : WakeOrFallback(p, sent, r)
    \/ \E p \in Procs, o \in RemoteOutcomes : run_remote(p, o)
    \/ \E p \in Procs, o \in LocalOutcomes : run_local(p, o)
    \/ \E p \in Procs : Return(p)
    \/ RotateLog
    \/ StorageChange

SpecStorage == Init /\ [][NextStorage]_vars

----------------------------------------------------------------------------
(* The scorer and the liveness probes called on their own, one call at a   *)
(* time: the /semantic/* handlers of web_agent (631-656), score_task, and  *)
(* the three probes of the program.                                        *)

\* texts at the edges of score(): the empty string, a whitespace-only
\* string, and a long text that matches keywords of every scoring list
EmptyText ==
    [name |-> "", len |-> 0, tokens |-> 0, heavy |-> 0, complexity |-> 0,
     container |-> 0, light |-> 0, heavy_sim |-> 0, light_sim |-> 0]
BlankText ==
    [name |-> "   ", len |-> 3, tokens |-> 0, heavy |-> 0, complexity |-> 0,
     container |-> 0, light |-> 0, heavy_sim |-> 10, light_sim |-> 10]
LongText ==
    [name |-> "analyze and optimize docker containers performance: docker ps, docker logs and docker stats of the running containers on the server network",
     len |-> 139, tokens |-> 21, heavy |-> 3, complexity |-> 5,
     container |-> 5, light |-> 0, heavy_sim |-> 65, light_sim |-> 20]

\* the query of the threshold-gating example that is expected to score at
\* or above 0.7
RemoteExample ==
    [name |-> "Please provide a comprehensive analysis of network security vulnerabilities and generate detailed optimization recommendations",
     len |-> 126, tokens |-> 14, heavy |-> 4, complexity |-> 1,
     container |-> 0, light |-> 0, heavy_sim |-> 65, light_sim |-> 20]

\* test_semantic_scoring, test/test_routing_pipeline.py 21-41: each query
\* with the destination the test expects for it (True: the dev machine)
test_cases ==
    {
      [query |->
       [name |-> "Please provide a comprehensive analysis of network security vulnerabilities",
        len |-> 75, tokens |-> 9, heavy |-> 2, complexity |-> 1,
        container |-> 0, light |-> 0, heavy_sim |-> 65, light_sim |-> 20],
       expected_route_to_dev |-> TRUE],
      [query |->
       [name |-> "Analyze system performance bottlenecks and optimize Docker container orchestration",
        len |-> 82, tokens |-> 9, heavy |-> 5, complexity |-> 4,
        container |-> 0, light |-> 0, heavy_sim |-> 65, light_sim |-> 20],
       expected_route_to_dev |-> TRUE],
      [query |->
       [name |-> "Generate detailed troubleshooting recommendations for complex infrastructure issues",
        len |-> 83, tokens |-> 8, heavy |-> 4, complexity |-> 1,
        container |-> 0, light |-> 0, heavy_sim |-> 65, light_sim |-> 20],
       expected_route_to_dev |-> TRUE],
      [query |->
       [name |-> "Research and implement advanced monitoring strategies for microservices",
        len |-> 71, tokens |-> 8, heavy |-> 3, complexity |-> 2,
        container |-> 0, light |-> 0, heavy_sim |-> 65, light_sim |-> 20],
       expected_route_to_dev |-> TRUE],
      [query |->
       [name |-> "Develop sophisticated automation scripts for deployment pipelines",
        len |-> 65, tokens |-> 7, heavy |-> 3, complexity |-> 2,
        container |-> 0, light |-> 0, heavy_sim |-> 65, light_sim |-> 20],
       expected_route_to_dev |-> TRUE],
      [query |->
       [name |-> "Check system performance and memory usage",
        len |-> 41, tokens |-> 6, heavy |-> 2, complexity |-> 2,
        container |-> 0, light |-> 1, heavy_sim |-> 45, light_sim |-> 55],
       expected_route_to_dev |-> FALSE],
      [query |->
       [name |-> "Troubleshoot network connectivity problems",
        len |-> 42, tokens |-> 4, heavy |-> 1, complexity |-> 1,
        container |-> 0, light |-> 0, heavy_sim |-> 45, light_sim |-> 55],
       expected_route_to_dev |-> FALSE],
      [query |->
       [name |-> "Show container status and logs",
        len |-> 30, tokens |-> 5, heavy |-> 0, complexity |-> 1,
        container |-> 1, light |-> 2, heavy_sim |-> 45, light_sim |-> 55],
       expected_route_to_dev |-> FALSE],
      [query |->
       [name |-> "list files",
        len |-> 10, tokens |-> 2, heavy |-> 0, complexity |-> 0,
        container |-> 0, light |-> 1, heavy_sim |-> 20, light_sim |-> 75],
       expected_route_to_dev |-> FALSE],
      [query |->
       [name |-> "show status",
        len |-> 11, tokens |-> 2, heavy |-> 0, complexity |-> 0,
        container |-> 0, light |-> 2, heavy_sim |-> 20, light_sim |-> 75],
       expected_route_to_dev |-> FALSE],
      [query |->
       [name |-> "echo hello",
        len |-> 10, tokens |-> 2, heavy |-> 0, complexity |-> 0,
        container |-> 0, light |-> 2, heavy_sim |-> 20, light_sim |-> 75],
       expected_route_to_dev |-> FALSE],
      [query |->
       [name |-> "help me",
        len |-> 7, tokens |-> 2, heavy |-> 0, complexity |-> 0,
        container |-> 0, light |-> 1, heavy_sim |-> 20, light_sim |-> 75],
       expected_route_to_dev |-> FALSE],
      [query |->
       [name |-> "test connection",
        len |-> 15, tokens |-> 2, heavy |-> 0, complexity |-> 0,
        container |-> 0, light |-> 1, heavy_sim |-> 20, light_sim |-> 75],
       expected_route_to_dev |-> FALSE] }

\* the queries of test_semantic_scoring in test/test_container_improvements.py
\* (56-63), and two more texts with container keywords: one with two light
\* keywords, one long enough to reach the clamp
test_queries ==
    { [name |-> "list all running containers",
       len |-> 27, tokens |-> 4, heavy |-> 0, complexity |-> 1,
       container |-> 2, light |-> 1, heavy_sim |-> 25, light_sim |-> 55],
      [name |-> "show me docker ps output",
       len |-> 24, tokens |-> 5, heavy |-> 0, complexity |-> 1,
       container |-> 1, light |-> 1, heavy_sim |-> 25, light_sim |-> 55],
      [name |-> "what containers are running",
       len |-> 27, tokens |-> 4, heavy |-> 0, complexity |-> 1,
       container |-> 1, light |-> 0, heavy_sim |-> 25, light_sim |-> 45],
      [name |-> "docker system info",
       len |-> 18, tokens |-> 3, heavy |-> 1, complexity |-> 1,
       container |-> 1, light |-> 0, heavy_sim |-> 35, light_sim |-> 45],
      [name |-> "simple hello world",
       len |-> 18, tokens |-> 3, heavy |-> 0, complexity |-> 0,
       container |-> 0, light |-> 2, heavy_sim |-> 10, light_sim |-> 75],
      [name |-> "complex network analysis with performance optimization",
       len |-> 54, tokens |-> 6, heavy |-> 2, complexity |-> 2,
       container |-> 0, light |-> 0, heavy_sim |-> 65, light_sim |-> 10],
      [name |-> "check container status",
       len |-> 22, tokens |-> 3, heavy |-> 0, complexity |-> 1,
       container |-> 1, light |-> 2, heavy_sim |-> 20, light_sim |-> 75],
      [name |-> "show docker logs and docker stats, then analyze, optimize and summarize the performance of all running containers",
       len |-> 113, tokens |-> 17, heavy |-> 4, complexity |-> 3,
       container |-> 4, light |-> 1, heavy_sim |-> 65, light_sim |-> 25] }

ScoreTexts ==
    Tasks \cup {EmptyText, BlankText, LongText, RemoteExample}
          \cup {c.query : c \in test_cases} \cup test_queries

\* the thresholds a client posts to /semantic/threshold: any float passes
\* float() at line 653
ThresholdRequests == {0 - 192, 0, 606, DefaultThreshold, ScoreScale, 1440}

\* what semantic_config.json can hold when the scorer is constructed
StoredConfigs ==
    {MissingConfig, CorruptConfig} \cup
    { [state |-> "ok", enabled |-> e, threshold |-> th] :
        e \in {JsonAbsent, JsonBool(TRUE), JsonBool(FALSE), JsonNumber(0)},
        th \in {JsonAbsent, JsonNumber(606), JsonNumber(1200), JsonBool(TRUE)} }

\* _load_config, lines 16-25: the settings a load of doc puts into memory
Reload(doc) ==
    [enabled |-> PyBool(LoadedConfig(doc).enabled),
     threshold |-> PyFloat(LoadedConfig(doc).threshold)]

\* the scorer is constructed anew (lines 7-13): _load_config reads the
\* stored settings and writes them back (26)
load_config ==
    /\ enabled' = Reload(semantic_config).enabled
    /\ threshold' = Reload(semantic_config).threshold
    /\ semantic_config' =
            Stored(semantic_config, ConfigDocument(enabled', threshold'))
    /\ UNCHANGED <<embed_ok, configVars, BRIDGE_STATUS, now, log, pc, fr,
                   streak, storage_ok, routing_config, observed, appendVars, sideVars>>

\* score_task(text), lines 141-143
ScoreCall(t) ==
    /\ observed' = [fn |-> "score", arg |-> t, enabled |-> enabled,
                    embed_ok |-> embed_ok, out |-> score_task(t)]
    /\ UNCHANGED <<dispatchVars, storeVars, appendVars, sideVars>>

\* how an attempt to reach the peer can end
ProbeOutcomes ==
    {"established", "refused", "timeout", "dns failure", "host down",
     "cannot start"}

\* is_dev_machine_reachable, lines 97-103: socket.create_connection inside
\* try / except Exception
is_dev_machine_reachable(o) == IF o = "established" THEN "true" ELSE "false"

\* what subprocess.run of the ssh command does: the client cannot be started
\* (FileNotFoundError), the timeout passes, or ssh exits, with 0 after
\* "echo ok" ran on the peer and with 255 when it could not connect
SshRun(o) ==
    CASE o = "cannot start" -> "FileNotFoundError"
      [] o = "timeout" -> "TimeoutExpired"
      [] o = "established" -> "exit 0"
      [] OTHER -> "exit 255"

\* BridgeStatusMonitor.is_ssh_reachable, bridge_status_monitor.py 84-102:
\* returncode == 0, and False from the handler of every Exception
is_ssh_reachable(o) == IF SshRun(o) = "exit 0" THEN "true" ELSE "false"

\* tasks/bridge_checker.is_ssh_up, lines 18-42: run(check=True) raises
\* CalledProcessError on a non-zero exit; line 41 catches that and
\* TimeoutExpired, nothing else
is_ssh_up(o) ==
    CASE SshRun(o) = "exit 0" -> "true"
      [] SshRun(o) \in {"exit 255", "TimeoutExpired"} -> "false"
      [] OTHER -> "raised"

\* one probe call and what it returned
ProbeCall(fn, o) ==
    /\ observed' =
          [fn |-> fn, arg |-> o,
           out |-> CASE fn = "is_dev_machine_reachable" -> is_dev_machine_reachable(o)
                     [] fn = "is_ssh_reachable" -> is_ssh_reachable(o)
                     [] OTHER -> is_ssh_up(o)]
    /\ UNCHANGED <<dispatchVars, storeVars, appendVars, sideVars>>

ProbeNames == {"is_dev_machine_reachable", "is_ssh_reachable", "is_ssh_up"}

\* the state after import with the scorer constructed from any stored
\* configuration, the embedding backend present or not
InitApi ==
    /\ \E doc \in StoredConfigs :
            /\ enabled = Reload(doc).enabled
            /\ threshold = Reload(doc).threshold
    /\ embed_ok \in BOOLEAN
    /\ REMOTE_ENABLED = TRUE
    /\ WAKE_ON_LAN_ENABLED = TRUE
    /\ DEV_MAC = "A1:B2:C3:D4:E5:F6"
    /\ BRIDGE_STATUS = InitialBridge
    /\ now = 0
    /\ log = <<>>
    /\ pc = [p \in Procs |-> "idle"]
    /\ fr = [p \in Procs |-> IdleFrame]
    /\ streak = 0
    /\ storage_ok = TRUE
    /\ semantic_config = ConfigDocument(enabled, threshold)
    /\ routing_config = RoutingDocument(WAKE_ON_LAN_ENABLED, DEV_MAC)
    /\ observed = NoCall
    /\ file = <<>>
    /\ writer = [p \in Procs |-> IdleWriter]
    /\ SideIdle

NextApi ==
    \/ \E t \in ScoreTexts : ScoreCall(t)
    \/ \E b \in BOOLEAN : set_enabled(b)
    \/ \E x \in ThresholdRequests : set_threshold(x)
    \/ load_config
    \/ \E fn \in ProbeNames, o \in ProbeOutcomes : ProbeCall(fn, o)

SpecApi == InitApi /\ [][NextApi]_vars

----------------------------------------------------------------------------
(* Concurrent appends to recall_log.jsonl.  Flask serves each request on   *)
(* its own thread (app.run(threaded=True)), so dispatch_task calls overlap *)
(* and their log writes interleave.  No lock is taken: log_event and       *)
(* log_result each open the file in mode "a", hand the whole line          *)
(* (json.dumps(entry) + "\n") to one f.write and close.  The line reaches  *)
(* the file as one write on a descriptor opened with O_APPEND, which the   *)
(* operating system places at the end of the file.                         *)

\* the line written with two f.write calls on an unbuffered file: the JSON
\* text and the newline reach the file as two writes
LineWritesSplit(r) == <<[rec |-> r, piece |-> "json"],
                        [rec |-> r, piece |-> "newline"]>>

\* lines 326-328 and 153-154: the writes that put the line of record r into
\* the file, one f.write of the JSON text with its newline
LineWrites(r) == <<[rec |-> r, piece |-> "whole"]>>

\* the lines a dispatch_task call writes, in order: the decision (179-185),
\* the scorer's record (187-191), then the events of the path taken; a
\* local execution, and a remote execution that fails and falls back
DispatchLines ==
    { <<LogEvent("dispatch_decision", "local", "Task score vs threshold"),
        LogResult("local"),
        LogEvent("local_execution", "", "")>>,
      <<LogEvent("dispatch_decision", "dev", "Task score vs threshold"),
        LogResult("dev"),
        LogEvent("remote_execution_error", "", ""),
        LogEvent("local_execution", "", "")>> }

\* thread p enters dispatch_task with conflict-free flags
StartDispatch(p, lines) ==
    /\ writer[p].todo = <<>> /\ writer[p].buf = <<>>
    /\ writer[p].calls < MaxCalls
    /\ writer' = [writer EXCEPT ![p].todo = lines, ![p].calls = @ + 1]
    /\ UNCHANGED <<dispatchVars, storeVars, observed, file, sideVars>>

\* thread p opens the log in mode "a" and formats its next line
OpenAppend(p) ==
    /\ writer[p].buf = <<>> /\ writer[p].todo # <<>>
    /\ writer' = [writer EXCEPT ![p].buf = LineWrites(Head(writer[p].todo)),
                                ![p].todo = Tail(@)]
    /\ UNCHANGED <<dispatchVars, storeVars, observed, file, sideVars>>

\* one write of thread p reaches the file, at its end (O_APPEND)
WriteAppend(p) ==
    /\ writer[p].buf # <<>>
    /\ file' = Append(file, Head(writer[p].buf))
    /\ writer' = [writer EXCEPT ![p].buf = Tail(@)]
    /\ UNCHANGED <<dispatchVars, storeVars, observed, sideVars>>

NextLog ==
    \/ \E p \in Procs, lines \in DispatchLines : StartDispatch(p, lines)
    \/ \E p \in Procs : OpenAppend(p)
    \/ \E p \in Procs : WriteAppend(p)

SpecLog == Init /\ [][NextLog]_vars

\* the file as a reader sees it (for line in f, line 358): the writes
\* grouped into lines, a line ending with the write that carries a newline
RECURSIVE LinesFrom(_, _)
LinesFrom(f, cur) ==
    IF f = <<>> THEN (IF cur = <<>> THEN <<>> ELSE <<cur>>)
    ELSE IF Head(f).piece \in {"whole", "newline"}
         THEN <<Append(cur, Head(f))>> \o LinesFrom(Tail(f), <<>>)
         ELSE LinesFrom(Tail(f), Append(cur, Head(f)))

FileLines(f) == LinesFrom(f, <<>>)

\* json.loads(line.strip()) succeeds (line 360): the line is the JSON text
\* of exactly one record followed by a newline
Parseable(line) ==
    \/ Len(line) = 1 /\ line[1].piece = "whole"
    \/ Len(line) = 2 /\ line[1].piece = "json" /\ line[2].piece = "newline"

\* entry.get exists (lines 361-367): the parsed line is a JSON object.  The
\* records of the program are objects; a JSON number, string, list or null
\* is a tagged value
IsObject(r) == "type" \notin DOMAIN r

\* get_dispatch_stats, lines 348-376: scan the file, skip the lines that
\* json.loads rejects (369-370), count the dispatch_decision entries and the
\* error events; entry.get on a parsed line that is not an object raises
\* AttributeError, which only the outer handler (374-376) catches
get_dispatch_stats(f) ==
    LET entries == SelectSeq(FileLines(f), Parseable)
        IsDecision(l) == l[1].rec.event_type = "dispatch_decision"
        IsRemote(l) == IsDecision(l) /\ l[1].rec.dest = "dev"
        IsLocal(l) == IsDecision(l) /\ l[1].rec.dest # "dev"
        IsError(l) == l[1].rec.event_type \in
                        {"local_execution_error", "remote_execution_error",
                         "remote_dispatch_error"}
    IN  IF \E i \in 1..Len(entries) : ~IsObject(entries[i][1].rec)
        THEN [error |-> "AttributeError"]
        ELSE [total |-> Len(SelectSeq(entries, IsDecision)),
              remote |-> Len(SelectSeq(entries, IsRemote)),
              local |-> Len(SelectSeq(entries, IsLocal)),
              errors |-> Len(SelectSeq(entries, IsError))]

----------------------------------------------------------------------------
(* Reading a log that holds malformed lines.  recall_log.jsonl is written  *)
(* by this program and is open to anything else on the host; a crash in    *)
(* the middle of a write leaves the beginning of a line, to which the next *)
(* append is joined.                                                       *)

\* the number of writes in the file
MaxLines == 3

\* lines of the program: decisions for either destination, an error event,
\* a scorer record
ProgramLines ==
    { LineWrites(LogEvent("dispatch_decision", "local", "Task score vs threshold"))[1],
      LineWrites(LogEvent("dispatch_decision", "dev", "Task score vs threshold"))[1],
      LineWrites(LogEvent("remote_execution_error", "", ""))[1],
      LineWrites(LogResult("local"))[1] }

\* malformed lines: the beginning of a record with no newline (truncated
\* JSON), a blank line, and a line holding the JSON number 42
MalformedLines ==
    { [rec |-> LogEvent("dispatch_decision", "dev", "Task score vs threshold"),
       piece |-> "partial"],
      [rec |-> JsonAbsent, piece |-> "newline"],
      [rec |-> JsonNumber(42), piece |-> "whole"] }

\* something is appended to the log
AppendLine(w) ==
    /\ Len(file) < MaxLines
    /\ file' = Append(file, w)
    /\ UNCHANGED <<dispatchVars, storeVars, observed, writer, sideVars>>

\* get_dispatch_stats() is called: the file as it was read and the result
ReadStats ==
    /\ observed' = [fn |-> "get_dispatch_stats", arg |-> "", out |-> "",
                    read |-> file, stats |-> get_dispatch_stats(file)]
    /\ UNCHANGED <<dispatchVars, storeVars, appendVars, sideVars>>

NextRead ==
    \/ \E w \in ProgramLines \cup MalformedLines : AppendLine(w)
    \/ ReadStats

SpecRead == Init /\ [][NextRead]_vars

----------------------------------------------------------------------------
(* The wake coordinators of the program, called on their own.  There are   *)
(* three: attempt_wake_and_retry of the dispatcher, attempt_wake_and_connect *)
(* of BridgeStatusMonitor (run by its monitor thread every check_interval) *)
(* and try_connect_or_wake of tasks/bridge_checker.  `observed` holds the  *)
(* call in progress: the function, the hardware address it was given, its *)
(* position, the re-probes made, the trace of what it did on the network   *)
(* and the clock, and what it returned.                                    *)

WakeNames ==
    {"attempt_wake_and_retry", "attempt_wake_and_connect", "try_connect_or_wake"}

\* bridge_status_monitor.py 39-40 and tasks/bridge_checker.py 15-16: the
\* defaults of SSH_MAX_RETRIES and SSH_RETRY_DELAY
wake_retries == 3
retry_delay == 15
MAX_RETRIES == 3
RETRY_DELAY == 10

\* the number of probes made after the wake signal, at most; the dispatcher
\* probes once (line 124)
max_retries(fn) ==
    CASE fn = "attempt_wake_and_retry" -> 1
      [] fn = "attempt_wake_and_connect" -> wake_retries
      [] OTHER -> MAX_RETRIES

\* the sleep taken before each of these probes
SleepBeforeProbe(fn) ==
    CASE fn = "attempt_wake_and_retry" -> WakeSleepSeconds
      [] fn = "attempt_wake_and_connect" -> retry_delay
      [] OTHER -> RETRY_DELAY

\* the liveness probe each coordinator calls
WakeProbe(fn, o) ==
    CASE fn = "attempt_wake_and_retry" -> is_dev_machine_reachable(o)
      [] fn = "attempt_wake_and_connect" -> is_ssh_reachable(o)
      [] OTHER -> is_ssh_up(o)

\* how sending the wake signal can end.  The dispatcher builds the packet
\* and sends it on a UDP socket; the monitor runs the wakeonlan tool and
\* builds the packet itself when the tool exits non-zero; bridge_checker
\* only runs the tool.
SendOutcomesOf(fn) ==
    CASE fn = "attempt_wake_and_retry" -> {"packet sent", "send failed"}
      [] fn = "attempt_wake_and_connect" ->
            {"tool ok", "tool missing", "tool failed, packet sent",
             "tool failed, send failed"}
      [] OTHER -> {"tool ok", "tool failed", "tool missing"}

SendOutcomes == UNION {SendOutcomesOf(fn) : fn \in WakeNames}

\* the wake signals an outcome puts on the network
SignalsSent(o) ==
    IF o \in {"packet sent", "tool ok", "tool failed, packet sent"} THEN 1 ELSE 0

\* where a call starts: attempt_wake_and_retry returns False at once without
\* a hardware address (120-121); the other two take no look at the address
\* and start with a probe (bridge_status_monitor.py 135, bridge_checker.py 50)
FirstStep(fn, mac) ==
    IF fn = "attempt_wake_and_retry"
    THEN (IF mac = "" THEN "returned" ELSE "send")
    ELSE "preprobe"

\* where a call goes after the send: send_magic_packet of the dispatcher
\* swallows every exception (112-113); send_wake_on_lan returns False on a
\* failure and attempt_wake_and_connect then returns False (141-142);
\* bridge_checker.send_magic_packet (44-46) ignores the exit code and lets
\* the FileNotFoundError of a missing tool out
AfterSend(fn, o) ==
    CASE fn = "attempt_wake_and_retry" -> "sleep"
      [] fn = "attempt_wake_and_connect" ->
            IF SignalsSent(o) = 1 THEN "sleep" ELSE "false"
      [] OTHER -> IF o = "tool missing" THEN "raised" ELSE "sleep"

\* a probe in the trace of a call: what the probe returned and how the
\* connection attempt ended
ProbeEvent(r, o) == [op |-> "probe", out |-> r, how |-> o]

\* a wake coordinator is called
WakeCall(fn) ==
    /\ IF observed.fn \in WakeNames THEN observed.at = "returned" ELSE TRUE
    /\ observed' =
          [fn |-> fn, arg |-> DEV_MAC, at |-> FirstStep(fn, DEV_MAC),
           tries |-> 0, trace |-> <<>>, slept |-> 0, signals |-> 0,
           out |-> IF FirstStep(fn, DEV_MAC) = "returned" THEN "false" ELSE ""]
    /\ UNCHANGED <<dispatchVars, storeVars, appendVars, sideVars>>

\* the probe made before anything else by attempt_wake_and_connect (135-136)
\* and try_connect_or_wake (50-52): when it succeeds the call returns True
PreProbe(o) ==
    /\ observed.fn \in WakeNames
    /\ observed.at = "preprobe"
    /\ LET r == WakeProbe(observed.fn, o)
       IN  observed' =
              [observed EXCEPT !.trace = Append(@, ProbeEvent(r, o)),
                               !.at = IF r = "false" THEN "send" ELSE "returned",
                               !.out = IF r = "false" THEN "" ELSE r]
    /\ UNCHANGED <<dispatchVars, storeVars, appendVars, sideVars>>

\* the wake signal is sent
SendWake(o) ==
    /\ observed.fn \in WakeNames
    /\ observed.at = "send"
    /\ o \in SendOutcomesOf(observed.fn)
    /\ LET next == AfterSend(observed.fn, o)
       IN  observed' =
              [observed EXCEPT !.trace = Append(@, Ev("wake", o)),
                               !.signals = @ + SignalsSent(o),
                               !.at = IF next = "sleep" THEN "sleep" ELSE "returned",
                               !.out = IF next = "sleep" THEN "" ELSE next]
    /\ UNCHANGED <<dispatchVars, storeVars, appendVars, sideVars>>

\* time.sleep before a probe: line 123, bridge_status_monitor.py 147,
\* bridge_checker.py 59
WakeSleep ==
    /\ observed.fn \in WakeNames
    /\ observed.at = "sleep"
    /\ observed' = [observed EXCEPT !.trace = Append(@, Ev("sleep", "slept")),
                                    !.slept = @ + SleepBeforeProbe(observed.fn),
                                    !.at = "probe"]
    /\ UNCHANGED <<dispatchVars, storeVars, appendVars, sideVars>>

\* the loops of bridge_status_monitor.py 145 and bridge_checker.py 57, and
\* the single probe of line 124
RetriesLeft(fn, tries) == tries < max_retries(fn)

\* the probe after a sleep: success returns True, failure goes round the
\* loop or returns False when the retries are used up
Reprobe(o) ==
    /\ observed.fn \in WakeNames
    /\ observed.at = "probe"
    /\ LET r == WakeProbe(observed.fn, o)
           again == r = "false" /\ RetriesLeft(observed.fn, observed.tries + 1)
       IN  observed' =
              [observed EXCEPT !.trace = Append(@, ProbeEvent(r, o)),
                               !.tries = @ + 1,
                               !.at = IF again THEN "sleep" ELSE "returned",
                               !.out = IF again THEN "" ELSE r]
    /\ UNCHANGED <<dispatchVars, storeVars, appendVars, sideVars>>

\* the state after import, a hardware address configured or not
InitWake ==
    /\ enabled = TRUE
    /\ threshold = DefaultThreshold
    /\ embed_ok = FALSE
    /\ REMOTE_ENABLED = TRUE
    /\ WAKE_ON_LAN_ENABLED = TRUE
    /\ DEV_MAC \in {"", "A1:B2:C3:D4:E5:F6"}
    /\ BRIDGE_STATUS = InitialBridge
    /\ now = 0
    /\ log = <<>>
    /\ pc = [p \in Procs |-> "idle"]
    /\ fr = [p \in Procs |-> IdleFrame]
    /\ streak = 0
    /\ storage_ok = TRUE
    /\ semantic_config = ConfigDocument(enabled, threshold)
    /\ routing_config = RoutingDocument(WAKE_ON_LAN_ENABLED, DEV_MAC)
    /\ observed = NoCall
    /\ file = <<>>
    /\ writer = [p \in Procs |-> IdleWriter]
    /\ SideIdle

NextWake ==
    \/ \E fn \in WakeNames : WakeCall(fn)
    \/ \E o \in ProbeOutcomes : PreProbe(o)
    \/ \E o \in SendOutcomes : SendWake(o)
    \/ WakeSleep
    \/ \E o \in ProbeOutcomes : Reprobe(o)

SpecWake == InitWake /\ [][NextWake]_vars

----------------------------------------------------------------------------
(* test_connectivity, the on-demand probe, between dispatches              *)

\* lines 340-344 with the reset of the first probe of a dispatch (199):
\* a successful probe clears failure_count
ConnectivityUpdateResetting(b, reachable) ==
    [b EXCEPT !.connected = reachable, !.last_ping_time = now,
              !.fallback_used = FALSE,
              !.failure_count = IF reachable THEN 0 ELSE @]

\* lines 340-344: BRIDGE_STATUS.update of three keys
ConnectivityUpdate(b, reachable) ==
    [b EXCEPT !.connected = reachable, !.last_ping_time = now,
              !.fallback_used = FALSE]

\* line 345 and line 337: the pair test_connectivity returns
ConnectivityResult(probed, reachable) ==
    [ok |-> probed /\ reachable,
     message |-> IF ~probed THEN "Remote execution disabled in config"
                 ELSE IF reachable THEN "Remote connection successful"
                 ELSE "Dev machine unreachable"]

\* test_connectivity, lines 334-345; `observed` keeps the bridge state and
\* the time at the call, the probes made and the pair returned
test_connectivity(o) ==
    /\ LET probed == REMOTE_ENABLED
           reachable == is_dev_machine_reachable(o) = "true"
       IN  /\ BRIDGE_STATUS' = IF probed
                               THEN ConnectivityUpdate(BRIDGE_STATUS, reachable)
                               ELSE BRIDGE_STATUS
           /\ observed' = [fn |-> "test_connectivity", arg |-> "", out |-> "",
                           pre |-> BRIDGE_STATUS, at |-> now,
                           probes |-> IF probed THEN 1 ELSE 0,
                           ret |-> ConnectivityResult(probed, reachable)]
    /\ UNCHANGED <<scorerVars, configVars, now, log, pc, fr, streak,
                   storeVars, appendVars, sideVars>>

NextConn ==
    \/ \E t \in Tasks : AllIdle /\ Call(MainThread, t, FALSE, FALSE)
    \/ \E p \in Procs, r \in BOOLEAN : Probe(p, r)
    \/ \E p \in Procs, sent \in BOOLEAN, r \in BOOLEAN : WakeOrFallback(p, sent, r)
    \/ \E p \in Procs, o \in RemoteOutcomes : run_remote(p, o)
    \/ \E p \in Procs, o \in LocalOutcomes : run_local(p, o)
    \/ \E p \in Procs : Return(p)
    \/ \E o \in ProbeOutcomes : AllIdle /\ test_connectivity(o)
    \/ Tick
    \/ RotateLog

SpecConn == Init /\ [][NextConn]_vars

----------------------------------------------------------------------------
(* Concurrent dispatches.  Flask serves each request on its own thread      *)
(* (web_agent 829, threaded=True) and dispatch_task takes no lock, so the   *)
(* calls of two requests interleave between any two of their operations on  *)
(* BRIDGE_STATUS.  In BRIDGE_STATUS.update({...}) of lines 203-208 the      *)
(* arguments are evaluated first, failure_count being read at line 207, and *)
(* dict.update is called with the finished dictionary afterwards: the read  *)
(* and the write are two operations.  Each thread serves one request.       *)

\* lines 204-207: the dictionary built from the arguments, with the clock
\* and failure_count as they are read at that moment
FailureDict(b) ==
    [connected |-> FALSE, last_ping_time |-> now, fallback_used |-> TRUE,
     failure_count |-> b.failure_count + 1]

\* dict.update (203): the keys of d are written into b, the others are kept
DictUpdate(b, d) ==
    [b EXCEPT !.connected = d.connected, !.last_ping_time = d.last_ping_time,
              !.fallback_used = d.fallback_used,
              !.failure_count = d.failure_count]

\* lines 194-207: the first liveness probe; on success the update of
\* 195-200 (constants and the clock only), on failure the evaluation of the
\* arguments of the update of 203-208
ProbeEvaluate(p, reachable) ==
    /\ pc[p] = "probe"
    /\ IF reachable
       THEN /\ BRIDGE_STATUS' = ProbeSuccessUpdate(BRIDGE_STATUS)
            /\ fr' = [fr EXCEPT ![p].events = Append(@, Ev("probe", "up"))]
            /\ pc' = [pc EXCEPT ![p] = "remote"]
       ELSE /\ fr' = [fr EXCEPT ![p].events = Append(@, Ev("probe", "down")),
                                ![p].update = FailureDict(BRIDGE_STATUS)]
            /\ pc' = [pc EXCEPT ![p] = "update"]
            /\ UNCHANGED BRIDGE_STATUS
    /\ UNCHANGED <<scorerVars, configVars, now, log, streak,
                   storeVars, observed, appendVars, sideVars>>

\* lines 203 and 209: dict.update with the dictionary built before, then
\* the bridge_unreachable event
ProbeUpdate(p) ==
    /\ pc[p] = "update"
    /\ BRIDGE_STATUS' = DictUpdate(BRIDGE_STATUS, fr[p].update)
    /\ log' = log \o Written(<<LogEvent("bridge_unreachable", "", "")>>)
    /\ pc' = [pc EXCEPT ![p] = "wake"]
    /\ UNCHANGED <<scorerVars, configVars, now, fr, streak,
                   storeVars, observed, appendVars, sideVars>>

\* the log file is archived away by an external rotation, which does not
\* wait for the running dispatches; the next append re-creates it (mode
\* "a", 326).  It is looked at while a request is still to come.
ArchiveLog ==
    /\ \E p \in Procs : pc[p] = "idle"
    /\ log # <<>>
    /\ log' = <<>>
    /\ UNCHANGED <<scorerVars, configVars, BRIDGE_STATUS, now, pc, fr, streak,
                   storeVars, observed, appendVars, sideVars>>

\* BRIDGE_STATUS after n dispatches in a row that found the peer
\* unreachable at time 0 and did not wake it, n below the breaker's limit
BridgeAfterFailures(n) ==
    IF n = 0 THEN InitialBridge
    ELSE [connected |-> FALSE, last_ping_time |-> 0, fallback_used |-> TRUE,
          failure_count |-> n, disabled_until |-> 0]

\* the state in which the concurrent requests arrive: the one after import,
\* or with failures already counted
InitRace ==
    /\ enabled = TRUE
    /\ threshold = DefaultThreshold
    /\ embed_ok = FALSE
    /\ REMOTE_ENABLED = TRUE
    /\ WAKE_ON_LAN_ENABLED = TRUE
    /\ DEV_MAC \in {"", "A1:B2:C3:D4:E5:F6"}
    /\ BRIDGE_STATUS \in {BridgeAfterFailures(n) : n \in 0..(FailureLimit - 1)}
    /\ now = 0
    /\ log = <<>>
    /\ pc = [p \in Procs |-> "idle"]
    /\ fr = [p \in Procs |-> IdleFrame]
    /\ streak = BRIDGE_STATUS.failure_count
    /\ storage_ok = TRUE
    /\ semantic_config = ConfigDocument(enabled, threshold)
    /\ routing_config = RoutingDocument(WAKE_ON_LAN_ENABLED, DEV_MAC)
    /\ observed = NoCall
    /\ file = <<>>
    /\ writer = [p \in Procs |-> IdleWriter]
    /\ SideIdle

\* the requests are for one task, with and without force_remote
RaceTasks == {t \in Tasks : t.name = "show status"}

NextRace ==
    \/ \E p \in Procs, t \in RaceTasks, frm \in BOOLEAN : Call(p, t, FALSE, frm)
    \/ \E p \in Procs, r \in BOOLEAN : ProbeEvaluate(p, r)
    \/ \E p \in Procs : ProbeUpdate(p)
    \/ \E p \in Procs, sent \in BOOLEAN, r \in BOOLEAN : WakeOrFallback(p, sent, r)
    \/ \E p \in Procs, o \in RemoteOutcomes : run_remote(p, o)
    \/ \E p \in Procs, o \in LocalOutcomes : run_local(p, o)
    \/ ArchiveLog

SpecRace == InitRace /\ [][NextRace]_vars

----------------------------------------------------------------------------
(* Concurrent writers of semantic_config.json.  The /semantic/* handlers of *)
(* web_agent (631-656) call set_enabled and set_threshold of the one        *)
(* scorer on the request threads.  Neither setter takes a lock.             *)
(* _save_config (28-30) opens the file in mode "w", which empties it, then  *)
(* builds the dictionary from the attributes as they are at that moment and *)
(* dumps it into the file object's buffer; the text reaches the file when   *)
(* the with block closes it, as one write at the start of the file.         *)

\* semantic_config.json right after open(path, "w"): an empty file
EmptyConfig ==
    [state |-> "empty", enabled |-> JsonAbsent, threshold |-> JsonAbsent]

\* the length of repr(x / 960) for the thresholds the setters are given:
\* "0.63125" and "0.7"
FloatTextLength(x) == IF x = 606 THEN 7 ELSE 3

\* the number of characters json.dump(doc, f, indent=2) writes (line 30):
\* 34 for the braces, keys and layout, true or false, and the number
DocumentSize(doc) ==
    34 + (IF PyBool(doc.enabled) THEN 4 ELSE 5)
       + FloatTextLength(doc.threshold.num)

\* the file after the text of doc is written at offset 0 over old: a longer
\* text that was there keeps its end, which leaves a file that does not
\* parse; its fields tell how long the file is
Overlay(old, doc) ==
    IF old.state \in {"ok", "corrupt"} /\ old.enabled.type # "absent"
       /\ DocumentSize(old) > DocumentSize(doc)
    THEN [old EXCEPT !.state = "corrupt"]
    ELSE doc

\* set_threshold, line 58: the assignment of the attribute
SetThresholdAssign(p, x) ==
    /\ setter[p].at = "idle"
    /\ threshold' = x
    /\ setter' = [setter EXCEPT ![p] = [IdleSetter EXCEPT
                        !.fn = "set_threshold", !.at = "save"]]
    /\ UNCHANGED <<enabled, embed_ok, configVars, BRIDGE_STATUS, now, log, pc,
                   fr, streak, storeVars, observed, appendVars, statsVars>>

\* set_enabled, line 54: the assignment of the attribute
SetEnabledAssign(p, b) ==
    /\ setter[p].at = "idle"
    /\ enabled' = b
    /\ setter' = [setter EXCEPT ![p] = [IdleSetter EXCEPT
                        !.fn = "set_enabled", !.at = "save"]]
    /\ UNCHANGED <<threshold, embed_ok, configVars, BRIDGE_STATUS, now, log,
                   pc, fr, streak, storeVars, observed, appendVars, statsVars>>

\* _save_config, line 29: open(self.config_file, "w") empties the file, or
\* raises when the storage fails, which ends the setter
OpenConfig(p) ==
    /\ setter[p].at = "save"
    /\ semantic_config' = Stored(semantic_config, EmptyConfig)
    /\ setter' = [setter EXCEPT ![p].at = IF storage_ok THEN "opened"
                                          ELSE "idle"]
    /\ UNCHANGED <<dispatchVars, storage_ok, routing_config, observed,
                   appendVars, statsVars>>

\* line 30: the dictionary is built from self.enabled and self.threshold
\* and dumped into the buffer of the file object
DumpConfig(p) ==
    /\ setter[p].at = "opened"
    /\ setter' = [setter EXCEPT ![p].doc = ConfigDocument(enabled, threshold),
                                ![p].at = "dumped"]
    /\ UNCHANGED <<dispatchVars, storeVars, observed, appendVars, statsVars>>

\* the end of the with block of line 29: the buffer is written to the file
\* and the setter returns
CloseConfig(p) ==
    /\ setter[p].at = "dumped"
    /\ semantic_config' = Overlay(semantic_config, setter[p].doc)
    /\ setter' = [setter EXCEPT ![p].at = "idle"]
    /\ UNCHANGED <<dispatchVars, storage_ok, routing_config, observed,
                   appendVars, statsVars>>

NextSave ==
    \/ \E p \in Procs, x \in ThresholdInputs : SetThresholdAssign(p, x)
    \/ \E p \in Procs, b \in BOOLEAN : SetEnabledAssign(p, b)
    \/ \E p \in Procs : OpenConfig(p)
    \/ \E p \in Procs : DumpConfig(p)
    \/ \E p \in Procs : CloseConfig(p)

SpecSave == Init /\ [][NextSave]_vars

----------------------------------------------------------------------------
(* The statistics logger.  One StatsLogger object is shared by the request *)
(* threads; every access to recent_queries is inside `with self.lock`.     *)
(* An entry is the dictionary log_query_start builds; has_duration stands  *)
(* for `"duration" in entry`, the mark of a completed entry.               *)

\* the queries that can be started before the model stops starting more
MaxQueries == 3

QueryIds == {"q1", "q2"}
Destinations == {"local", "dev"}

\* the lock taken whether it is held or not
LockFreeAlways == TRUE

\* threading.Lock (21): `with self.lock` waits until no thread holds it
LockFree == lock = Unlocked

\* lines 47-53: the entry of a started query
StartEntry(query_id, expected_destination) ==
    [query_id |-> query_id, expected_destination |-> expected_destination,
     has_duration |-> FALSE, actual_destination |-> ""]

\* lines 66-70: the last entry, in the order of the deque, with this id and
\* without a duration; 0 when there is none
FindStartEntry(qs, query_id) ==
    LET open == {i \in 1..Len(qs) :
                    qs[i].query_id = query_id /\ ~qs[i].has_duration}
    IN  IF open = {} THEN 0
        ELSE CHOOSE i \in open : \A j \in open : j <= i

\* lines 76-84: the entry with its completion data
CompletedEntry(e, actual_destination) ==
    [e EXCEPT !.has_duration = TRUE, !.actual_destination = actual_destination]

\* lines 130-131: the entries get_recent_stats counts (all of the model's
\* entries are younger than 24 hours)
RecentCompleted(qs) == SelectSeq(qs, LAMBDA e : e.has_duration)

\* log_query_start is called: the entry is built (47-53), then the lock is
\* asked for
log_query_start(p, id, d) ==
    /\ caller[p].at = "idle"
    /\ Len(recent_queries)
        + Cardinality({q \in Procs : caller[q].fn = "log_query_start"})
            < MaxQueries
    /\ caller' = [caller EXCEPT ![p] =
                    [IdleCaller EXCEPT !.fn = "log_query_start",
                        !.at = "acquire", !.query_id = id, !.destination = d]]
    /\ UNCHANGED <<dispatchVars, storeVars, observed, appendVars, setter,
                   recent_queries, lock, stats_file>>

\* log_query_complete is called (60-62)
log_query_complete(p, id, d) ==
    /\ caller[p].at = "idle"
    /\ caller' = [caller EXCEPT ![p] =
                    [IdleCaller EXCEPT !.fn = "log_query_complete",
                        !.at = "acquire", !.query_id = id, !.destination = d]]
    /\ UNCHANGED <<dispatchVars, storeVars, observed, appendVars, setter,
                   recent_queries, lock, stats_file>>

\* get_recent_stats is called (124-126)
get_recent_stats(p) ==
    /\ caller[p].at = "idle"
    /\ caller' = [caller EXCEPT ![p] =
                    [IdleCaller EXCEPT !.fn = "get_recent_stats",
                        !.at = "acquire"]]
    /\ UNCHANGED <<dispatchVars, storeVars, observed, appendVars, setter,
                   recent_queries, lock, stats_file>>

\* `with self.lock:` is entered (55, 64, 128)
AcquireLock(p) ==
    /\ caller[p].at = "acquire"
    /\ LockFree
    /\ lock' = p
    /\ caller' = [caller EXCEPT ![p].at = "held",
                                ![p].pre_queries = recent_queries,
                                ![p].pre_file = stats_file]
    /\ UNCHANGED <<dispatchVars, storeVars, observed, appendVars, setter,
                   recent_queries, stats_file>>

\* line 56: the entry goes to the end of the deque
AppendEntry(p) ==
    /\ caller[p].fn = "log_query_start"
    /\ caller[p].at = "held"
    /\ recent_queries' =
            Append(recent_queries,
                   StartEntry(caller[p].query_id, caller[p].destination))
    /\ caller' = [caller EXCEPT ![p].at = "release", ![p].ret = "entry"]
    /\ UNCHANGED <<dispatchVars, storeVars, observed, appendVars, setter,
                   lock, stats_file>>

\* lines 66-72: the search for the start entry; without one the call leaves
\* the block and returns None (91)
FindEntry(p) ==
    /\ caller[p].fn = "log_query_complete"
    /\ caller[p].at = "held"
    /\ LET k == FindStartEntry(recent_queries, caller[p].query_id)
       IN  caller' = [caller EXCEPT ![p].found = k,
                            ![p].at = IF k = 0 THEN "release" ELSE "update",
                            ![p].ret = IF k = 0 THEN "None" ELSE ""]
    /\ UNCHANGED <<dispatchVars, storeVars, observed, appendVars, setter,
                   recent_queries, lock, stats_file>>

\* lines 73-84: the entry that was found is updated in place
UpdateEntry(p) ==
    /\ caller[p].at = "update"
    /\ recent_queries' =
            [recent_queries EXCEPT ![caller[p].found] =
                CompletedEntry(@, caller[p].destination)]
    /\ caller' = [caller EXCEPT ![p].at = "write"]
    /\ UNCHANGED <<dispatchVars, storeVars, observed, appendVars, setter,
                   lock, stats_file>>

\* lines 86-89 with _write_to_file (116-122): the entry is appended to
\* performance_stats.jsonl and returned
WriteToFile(p) ==
    /\ caller[p].at = "write"
    /\ stats_file' = Append(stats_file, recent_queries[caller[p].found])
    /\ caller' = [caller EXCEPT ![p].at = "release", ![p].ret = "entry"]
    /\ UNCHANGED <<dispatchVars, storeVars, observed, appendVars, setter,
                   recent_queries, lock>>

\* lines 128-137: the completed entries are collected under the lock and
\* counted
CountCompleted(p) ==
    /\ caller[p].fn = "get_recent_stats"
    /\ caller[p].at = "held"
    /\ caller' = [caller EXCEPT ![p].at = "release", ![p].ret = "stats",
                        ![p].total_queries = Len(RecentCompleted(recent_queries))]
    /\ UNCHANGED <<dispatchVars, storeVars, observed, appendVars, setter,
                   recent_queries, lock, stats_file>>

\* the `with` block is left and the method returns
ReleaseLock(p) ==
    /\ caller[p].at = "release"
    /\ lock' = IF lock = p THEN Unlocked ELSE lock
    /\ caller' = [caller EXCEPT ![p] = IdleCaller]
    /\ UNCHANGED <<dispatchVars, storeVars, observed, appendVars, setter,
                   recent_queries, stats_file>>

NextStats ==
    \/ \E p \in Procs, id \in QueryIds : log_query_start(p, id, "local")
    \/ \E p \in Procs, id \in QueryIds, d \in Destinations :
            log_query_complete(p, id, d)
    \/ \E p \in Procs : get_recent_stats(p)
    \/ \E p \in Procs : AcquireLock(p)
    \/ \E p \in Procs : AppendEntry(p)
    \/ \E p \in Procs : FindEntry(p)
    \/ \E p \in Procs : UpdateEntry(p)
    \/ \E p \in Procs : WriteToFile(p)
    \/ \E p \in Procs : CountCompleted(p)
    \/ \E p \in Procs : ReleaseLock(p)

\* the state after import, with the logger as its constructor leaves it
InitStats == Init /\ REMOTE_ENABLED /\ DEV_MAC # ""

SpecStats == InitStats /\ [][NextStats]_vars

----------------------------------------------------------------------------
(* Vocabulary of the properties *)

LocalTags == {"[LOCAL]", "[LOCAL ERROR]"}
ResultTags == LocalTags \cup {"[REMOTE]"}

\* the call of thread p was accepted and is running or has returned
Active(p) == pc[p] \notin {"idle", "raised"}

NoFlags(f) == ~f.force_local /\ ~f.force_remote

HasOp(evs, op) == \E i \in 1..Len(evs) : evs[i].op = op

TaskByName(n) == CHOOSE t \in Tasks : t.name = n

\* the breaker was closed when the call of frame f was made
ClosedAtCall(f) == f.calledAt >= f.pre.disabled_until

----------------------------------------------------------------------------
(* C1: threshold gating *)

\* C1: with no force flag, remote execution enabled and the breaker closed
\* (now >= disabled_until), the call step of dispatch_task chooses remote
\* (execute_remote, logged destination "dev", next position the probe) if and
\* only if the score of the task is at least the scorer's threshold as it is
\* at the time of the call.
C1_ThresholdGating ==
    [][\A p \in Procs :
          ( /\ pc[p] = "idle"
            /\ pc'[p] \notin {"idle", "raised"}
            /\ NoFlags(fr'[p])
            /\ REMOTE_ENABLED
            /\ now >= BRIDGE_STATUS.disabled_until )
          => LET remote == score_task(TaskByName(fr'[p].task)) >= threshold
             IN  /\ fr'[p].execute_remote <=> remote
                 /\ pc'[p] = "probe" <=> remote
                 /\ log'[Len(log) + 1].dest = "dev" <=> remote
                 /\ log'[Len(log) + 2].dest = "dev" <=> remote]_vars

\* a call made once a cooldown is over (now >= disabled_until > 0), whose score
\* equals the threshold, has been routed to the remote peer
C1_Witness ==
    \E p \in Procs :
        /\ pc[p] = "probe"
        /\ NoFlags(fr[p])
        /\ REMOTE_ENABLED
        /\ fr[p].pre.disabled_until > 0
        /\ fr[p].calledAt >= fr[p].pre.disabled_until
        /\ fr[p].score = fr[p].threshold
        /\ fr[p].execute_remote

----------------------------------------------------------------------------
(* C2: the breaker trips after three failed remote attempts *)

\* the third failed remote attempt in a row leaves the breaker open
C2_OpenAfterThree ==
    \A p \in Procs :
        ( /\ pc[p] = "done"
          /\ fr[p].execute_remote
          /\ AttemptFailed(fr[p].events)
          /\ streak >= FailureLimit )
        => BRIDGE_STATUS.disabled_until > fr[p].doneAt

\* a call without force flags made while the breaker is open routes local
C2_LocalWhileOpen ==
    \A p \in Procs :
        (Active(p) /\ NoFlags(fr[p]) /\ ~ClosedAtCall(fr[p]))
        => /\ ~fr[p].execute_remote
           /\ fr[p].reason = "Remote delegation temporarily disabled"

\* an open breaker stays open as long as time has not reached disabled_until
C2_StaysOpen ==
    (BRIDGE_STATUS.disabled_until > now /\ BRIDGE_STATUS.disabled_until > now')
    => BRIDGE_STATUS'.disabled_until > now'

\* C2: after 3 consecutive failed remote attempts with no success in between
\* the breaker is open (now < disabled_until) and stays open until time
\* passes disabled_until; during that window every dispatch_task call without
\* force flags routes local with the reason 'Remote delegation temporarily
\* disabled', whatever its score.
C2_BreakerTrips ==
    [](C2_OpenAfterThree /\ C2_LocalWhileOpen) /\ [][C2_StaysOpen]_vars

----------------------------------------------------------------------------
(* C3: conflicting force flags *)

\* C3: a dispatch_task call with force_local and force_remote both true is
\* rejected with an error before any side effect: the rejecting step leaves
\* the log, BRIDGE_STATUS, the scorer and the configuration as they were, and
\* the rejected call has invoked no probe, wake or executor.
C3_ConflictRejected ==
    /\ [](\A p \in Procs :
            (pc[p] # "idle" /\ fr[p].force_local /\ fr[p].force_remote)
            => /\ pc[p] = "raised"
               /\ fr[p].result.tag \in {"ValueError", "HTTP 400"}
               /\ fr[p].events = <<>>
               /\ Len(log) = fr[p].logAt
               /\ BRIDGE_STATUS = fr[p].pre)
    /\ [][\A p \in Procs :
            (pc[p] = "idle" /\ fr'[p].force_local /\ fr'[p].force_remote)
            => UNCHANGED <<log, BRIDGE_STATUS, scorerVars, configVars, now,
                           streak>>]_vars

\* dispatch_task itself has rejected a call while the log held records and
\* the bridge had recorded failures
C3_Witness ==
    \E p \in Procs :
        /\ pc[p] = "raised"
        /\ fr[p].result.tag = "ValueError"
        /\ fr[p].force_local /\ fr[p].force_remote
        /\ log # <<>>
        /\ BRIDGE_STATUS.failure_count > 0

----------------------------------------------------------------------------
(* C4: force_local *)

\* C4: a dispatch_task call with force_local (and not force_remote) never
\* probes, wakes or executes on the remote peer, whatever the score, the
\* threshold and the breaker state, and its result is tagged [LOCAL] or
\* [LOCAL ERROR].
C4_ForceLocal ==
    \A p \in Procs :
        (pc[p] # "idle" /\ fr[p].force_local /\ ~fr[p].force_remote)
        => /\ pc[p] \in {"local", "done"}
           /\ \A i \in 1..Len(fr[p].events) : fr[p].events[i].op = "local"
           /\ pc[p] = "done" => fr[p].result.tag \in LocalTags

\* a forced-local call has returned that the score would have sent remote
C4_Witness ==
    \E p \in Procs :
        /\ pc[p] = "done"
        /\ fr[p].force_local
        /\ REMOTE_ENABLED
        /\ ClosedAtCall(fr[p])
        /\ fr[p].score >= fr[p].threshold
        /\ fr[p].result.tag = "[LOCAL]"

----------------------------------------------------------------------------
(* C5: remote failures fall back to local *)

\* C5: once the remote executor has failed in a dispatch (non-zero exit,
\* timeout or transport error) the call goes on to the local executor and
\* returns its local-tagged result; the failure never leaves dispatch_task
\* as an exception.
C5_RemoteFailureFallsBack ==
    \A p \in Procs :
        (\E i \in 1..Len(fr[p].events) :
            fr[p].events[i].op = "remote" /\ fr[p].events[i].out # "ok")
        => /\ pc[p] \in {"local", "done"}
           /\ pc[p] = "done"
              => /\ fr[p].result.tag \in LocalTags
                 /\ fr[p].events[Len(fr[p].events)].op = "local"

\* a call whose remote execution hit a transport error returned [LOCAL]
C5_Witness ==
    \E p \in Procs :
        /\ pc[p] = "done"
        /\ \E i \in 1..Len(fr[p].events) :
              fr[p].events[i] = Ev("remote", "error")
        /\ fr[p].result.tag = "[LOCAL]"

----------------------------------------------------------------------------
(* C6: local failures are surfaced *)

\* C6: when the local executor raises, dispatch_task returns a result tagged
\* [LOCAL ERROR] that carries the error message, does not raise, and invokes
\* nothing after the local executor (no remote attempt follows a local
\* failure).
C6_LocalFailureSurfaced ==
    \A p \in Procs :
        \A i \in 1..Len(fr[p].events) :
            (fr[p].events[i].op = "local" /\ fr[p].events[i].out # "ok")
            => /\ pc[p] = "done"
               /\ i = Len(fr[p].events)
               /\ fr[p].result.tag = "[LOCAL ERROR]"
               /\ fr[p].result.text[Len(fr[p].result.text)] = fr[p].events[i].out

\* the local executor raised in a call that had already fallen back from a
\* failed remote execution
C6_Witness ==
    \E p \in Procs :
        /\ pc[p] = "done"
        /\ fr[p].result.tag = "[LOCAL ERROR]"
        /\ \E i \in 1..Len(fr[p].events) :
              fr[p].events[i].op = "remote" /\ fr[p].events[i].out # "ok"
        /\ fr[p].events[Len(fr[p].events)] = Ev("local", "model failure")

----------------------------------------------------------------------------
(* C7: the result tag names the executor *)

\* C7: every dispatch_task call that is not rejected for conflicting flags
\* returns a result that carries exactly one of the tags [LOCAL],
\* [LOCAL ERROR] and [REMOTE], and the tag names the executor that produced
\* the text: [REMOTE] iff the last thing the call did was a remote execution
\* that exited with code 0, [LOCAL] iff it was a local execution that
\* returned, [LOCAL ERROR] iff it was a local execution that raised.
C7_TagNamesExecutor ==
    \A p \in Procs :
        /\ (pc[p] = "raised") => (fr[p].force_local /\ fr[p].force_remote)
        /\ (pc[p] = "done")
           => /\ fr[p].result.tag \in ResultTags
              /\ fr[p].events # <<>>
              /\ LET last == fr[p].events[Len(fr[p].events)]
                 IN  /\ fr[p].result.tag = "[REMOTE]"
                        <=> (last.op = "remote" /\ last.out = "ok")
                     /\ fr[p].result.tag = "[LOCAL]"
                        <=> (last.op = "local" /\ last.out = "ok")
                     /\ fr[p].result.tag = "[LOCAL ERROR]"
                        <=> (last.op = "local" /\ last.out # "ok")

\* a [REMOTE] result returned by a call that had to wake the peer first
C7_Witness ==
    \E p \in Procs :
        /\ pc[p] = "done"
        /\ fr[p].result.tag = "[REMOTE]"
        /\ HasOp(fr[p].events, "wake")

----------------------------------------------------------------------------
(* C8: unreachable peer, wake-on-LAN disabled *)

\* the case of C8: a returned call without force flags whose score is at or
\* above the threshold, every probe of which failed, with wake-on-LAN off
C8_Case(p) ==
    /\ pc[p] = "done"
    /\ NoFlags(fr[p])
    /\ fr[p].score >= fr[p].threshold
    /\ ~WAKE_ON_LAN_ENABLED
    /\ \A i \in 1..Len(fr[p].events) :
          fr[p].events[i].op = "probe" => fr[p].events[i].out = "down"

C8_Outcome(p) ==
    /\ fr[p].result.tag \in LocalTags
    /\ ~HasOp(fr[p].events, "wake")
    /\ BRIDGE_STATUS.failure_count = fr[p].pre.failure_count + 1

\* C8 as claimed: when every liveness probe fails and wake-on-LAN is
\* disabled, a dispatch_task call whose score favours remote returns a
\* local-tagged result, sends no wake signal, and records exactly one failure
\* (failure_count increases by exactly 1).
C8_AsClaimed == \A p \in Procs : C8_Case(p) => C8_Outcome(p)

\* C8 amended: the same, for a call made while remote execution is enabled
\* and the breaker is closed (now >= disabled_until).
C8_UnreachableNoWake ==
    \A p \in Procs :
        (C8_Case(p) /\ REMOTE_ENABLED /\ ClosedAtCall(fr[p])) => C8_Outcome(p)

\* such a call has returned, with a hardware address configured and the
\* failed probe in its trace
C8_Witness ==
    \E p \in Procs :
        /\ C8_Case(p) /\ REMOTE_ENABLED /\ ClosedAtCall(fr[p])
        /\ DEV_MAC # ""
        /\ fr[p].events[1] = Ev("probe", "down")

----------------------------------------------------------------------------
(* C9: wake success *)

\* the case of C9: a returned call whose first probe failed and whose probe
\* after the wake attempt succeeded
C9_Case(p) ==
    /\ pc[p] = "done"
    /\ Len(fr[p].events) >= 3
    /\ fr[p].events[1] = Ev("probe", "down")
    /\ fr[p].events[2].op = "wake"
    /\ fr[p].events[3] = Ev("probe", "up")

C9_BreakerSuccess(p) ==
    /\ BRIDGE_STATUS.failure_count = 0
    /\ BRIDGE_STATUS.connected
    /\ ~BRIDGE_STATUS.fallback_used
    /\ BRIDGE_STATUS.disabled_until = fr[p].pre.disabled_until

----------------------------------------------------------------------------
(* C10: remote execution disabled in the configuration *)

\* C10: when remote execution is disabled in the configuration, every
\* accepted dispatch_task call routes local, whatever the score and whichever
\* force flag is set: the recorded decision is local (execute_remote =
\* false), the peer is neither probed nor woken, BRIDGE_STATUS is not
\* changed, and the result is local-tagged.
C10_RemoteDisabled ==
    \A p \in Procs :
        (~REMOTE_ENABLED /\ Active(p))
        => /\ ~fr[p].execute_remote
           /\ ~HasOp(fr[p].events, "probe")
           /\ ~HasOp(fr[p].events, "wake")
           /\ BRIDGE_STATUS = fr[p].pre
           /\ pc[p] = "done" => fr[p].result.tag \in LocalTags

----------------------------------------------------------------------------
(* C11 *)

\* every dispatch that was started has written all its lines
Quiescent == \A p \in Procs : writer[p].todo = <<>> /\ writer[p].buf = <<>>

\* N: the dispatch_task calls made so far, over all threads
RECURSIVE CallsOf(_)
CallsOf(ps) ==
    IF ps = {} THEN 0
    ELSE LET p == CHOOSE q \in ps : TRUE
         IN  writer[p].calls + CallsOf(ps \ {p})

CallsMade == CallsOf(Procs)

\* C11: once N dispatch_task calls that ran concurrently, in any
\* interleaving of their log writes, have all finished, every line of the log
\* parses on its own as one record (none is torn or merged with another) and
\* get_dispatch_stats()["total"], 0 for the empty log they started from, is N.
C11_AppendIntegrity ==
    Quiescent =>
        /\ \A i \in 1..Len(FileLines(file)) : Parseable(FileLines(file)[i])
        /\ get_dispatch_stats(file).total = CallsMade

\* two dispatches overlapped: both decisions were written before either
\* call wrote anything else, and both calls have finished
C11_Witness ==
    /\ Quiescent
    /\ \A p \in Procs : writer[p].calls = 1
    /\ Len(file) >= 6
    /\ file[1].rec.event_type = "dispatch_decision"
    /\ file[2].rec.event_type = "dispatch_decision"
    /\ get_dispatch_stats(file).total = 2

----------------------------------------------------------------------------
(* C12 *)

IsPrefix(a, b) == Len(a) <= Len(b) /\ SubSeq(b, 1, Len(a)) = a

\* the record of a dispatch decision, the one get_dispatch_stats counts
IsDecisionRecord(r) == r.event_type = "dispatch_decision"
\* the scorer's record of the task, its score and where it was routed
IsScoreRecord(r) == r.writer = "log_result"
\* the record of the execution that produced the result of the call
IsOutcomeRecord(r) ==
    r.event_type \in {"local_execution", "local_execution_error",
                      "remote_execution"}

\* thread p enters dispatch_task and is not rejected
Accepted(p) == pc[p] = "idle" /\ pc'[p] \in {"probe", "local"}
\* the dispatch_task call of thread p produces its result
Finishes(p) == pc[p] # "done" /\ pc'[p] = "done"

----------------------------------------------------------------------------
(* C13 *)

\* C13: a write to the log or to configuration storage that fails during a
\* dispatch does not stop the dispatch: the only exception that leaves
\* dispatch_task is the rejection of conflicting flags, and every accepted
\* call carries out its decision and returns a tagged result.
C13_PersistenceFailureContained ==
    \A p \in Procs :
        pc[p] = "raised" => fr[p].result.tag \in {"ValueError", "HTTP 400"}

----------------------------------------------------------------------------
(* C14 *)

\* C14: whatever the text, the number of keywords it matches and the
\* configuration of the scorer (enabled or not, embeddings or not), score
\* returns a value in the closed interval [0.0, 1.0].
C14_ScoreInUnitInterval ==
    observed.fn = "score" =>
        observed.out >= 0 /\ observed.out <= ScoreScale

\* both ends of the clamp were needed: a text whose contributions sum to
\* more than 1.0 scored 1.0 (and elsewhere a sum below 0.0 scores 0.0)
C14_Witness ==
    /\ observed.fn = "score"
    /\ observed.enabled /\ observed.embed_ok
    /\ RawScore(observed.arg, TRUE) > ScoreScale
    /\ observed.out = ScoreScale
    /\ \E t \in ScoreTexts : RawScore(t, embed_ok) < 0

----------------------------------------------------------------------------
(* C15 *)

\* a text without a single token: empty, or whitespace only
IsBlank(t) == t.tokens = 0

\* C15: score returns exactly 0.0 for the empty string and for every
\* whitespace-only string.
C15_BlankScoresZero ==
    (observed.fn = "score" /\ IsBlank(observed.arg)) => observed.out = 0

----------------------------------------------------------------------------
(* C16 *)

\* the clamped sum of the contributions of text t, 0.0 for the empty text
Heuristic(t, emb) ==
    IF t.len = 0 THEN 0 ELSE Max(0, Min(ScoreScale, RawScore(t, emb)))

\* C16: a score call made while the enabled flag is false returns 0.0 for
\* every text, and one made while it is true returns the heuristic score;
\* the flag read is the one the last set_enabled call (or the load) left.
C16_EnabledFlagGatesScore ==
    /\ [](observed.fn = "score" =>
            observed.out = IF observed.enabled
                           THEN Heuristic(observed.arg, observed.embed_ok)
                           ELSE 0)
    /\ [][\A t \in ScoreTexts : ScoreCall(t) => observed'.enabled = enabled]_vars
    /\ [][\A b \in BOOLEAN : set_enabled(b) => enabled' = b]_vars

\* a text with a positive heuristic score was scored 0.0 while the scorer
\* was disabled, and the scorer has been enabled again since
C16_Witness ==
    /\ observed.fn = "score"
    /\ ~observed.enabled
    /\ Heuristic(observed.arg, observed.embed_ok) > 0
    /\ observed.out = 0
    /\ enabled

----------------------------------------------------------------------------
(* C17 *)

\* C17: when set_threshold(x) has returned, a reload of the stored
\* configuration yields threshold x, and when set_enabled(b) has returned it
\* yields enabled b; the other setting is the same as before the call, in
\* memory and in storage.
C17_SettersPersist ==
    /\ [][\A x \in ThresholdRequests :
            (set_threshold(x) /\ storage_ok) =>
                /\ Reload(semantic_config').threshold = x
                /\ threshold' = x
                /\ enabled' = enabled
                /\ semantic_config'.enabled = semantic_config.enabled]_vars
    /\ [][\A b \in BOOLEAN :
            (set_enabled(b) /\ storage_ok) =>
                /\ Reload(semantic_config').enabled = b
                /\ enabled' = b
                /\ threshold' = threshold
                /\ semantic_config'.threshold = semantic_config.threshold]_vars
    /\ [][load_config =>
            /\ enabled' = Reload(semantic_config).enabled
            /\ threshold' = Reload(semantic_config).threshold]_vars

\* both setters have been called with values no stored configuration
\* holds, and storage and memory agree on them
C17_Witness ==
    /\ threshold = 0 /\ ~enabled
    /\ semantic_config = ConfigDocument(FALSE, 0)
    /\ Reload(semantic_config) = [enabled |-> FALSE, threshold |-> 0]

----------------------------------------------------------------------------
(* C18 *)

\* C18: after any sequence of set_threshold calls and configuration loads
\* the threshold read by dispatch_task (line 161) lies in [0, 1].
C18_ThresholdInUnitInterval == threshold >= 0 /\ threshold <= ScoreScale

----------------------------------------------------------------------------
(* C19 *)

\* C19: set_wake_on_lan(e) sets the wake-on-LAN flag to e and returns the
\* flag (line 94), the routing record it has stored by then holds
\* wake_on_lan_enabled = e and get_bridge_status reports e; the peer's
\* hardware address, host and port, in memory and in the record, and the
\* whole of BRIDGE_STATUS are as before the call.
C19_WakeOnLanSetter ==
    [][\A e \in BOOLEAN :
        set_wake_on_lan(e) =>
            /\ WAKE_ON_LAN_ENABLED' = e
            /\ routing_config'.wake_on_lan_enabled = JsonBool(e)
            /\ PyBool(routing_config'.wake_on_lan_enabled) = e
            /\ get_bridge_status'.wake_on_lan_enabled = e
            /\ routing_config'.dev_machine_mac = routing_config.dev_machine_mac
            /\ routing_config'.dev_machine_ip = routing_config.dev_machine_ip
            /\ routing_config'.dev_machine_port = routing_config.dev_machine_port
            /\ DEV_MAC' = DEV_MAC
            /\ BRIDGE_STATUS' = BRIDGE_STATUS
            /\ get_bridge_status'.status = get_bridge_status.status
            /\ get_bridge_status'.disabled_until = get_bridge_status.disabled_until
      ]_vars

\* wake-on-LAN has been switched off after dispatches had left their mark
\* on the bridge state, and the stored record and the status report say so
C19_Witness ==
    /\ ~WAKE_ON_LAN_ENABLED
    /\ routing_config.wake_on_lan_enabled = JsonBool(FALSE)
    /\ get_bridge_status.wake_on_lan_enabled = FALSE
    /\ BRIDGE_STATUS.failure_count > 0
    /\ BRIDGE_STATUS.disabled_until > 0

----------------------------------------------------------------------------
(* C20 *)

\* C20: each liveness probe returns true when the connection or handshake
\* was established and false for every other outcome - refused, timeout,
\* DNS failure, host down, the probe command failing to start - and never
\* raises.
C20_ProbesNeverRaise ==
    observed.fn \in ProbeNames =>
        observed.out = IF observed.arg = "established" THEN "true" ELSE "false"

----------------------------------------------------------------------------
(* C21: a wake attempt without a hardware address *)

\* C21: when no hardware address is configured, a wake attempt is a no-op
\* that returns false immediately: no wake packet is sent, no sleep is taken
\* and no liveness probe is made.
C21_NoAddressNoWake ==
    (observed.fn \in WakeNames /\ observed.arg = "")
    => /\ observed.at = "returned" => observed.out = "false"
       /\ observed.trace = <<>>
       /\ observed.signals = 0
       /\ observed.slept = 0

----------------------------------------------------------------------------
(* C22: the wake attempt is bounded *)

\* the events of kind op in a trace
OpsOf(evs, op) == SelectSeq(evs, LAMBDA e : e.op = op)

\* C22: a wake attempt (with a hardware address configured) sends exactly
\* one wake signal, then probes the peer at most max_retries times, sleeping
\* retry_delay before each probe; it returns true at the first successful
\* probe without probing again, returns false once all retries are
\* exhausted, and so always terminates: it returns true or false after a
\* bounded number of steps.
C22_WakeBounded ==
    (observed.fn \in WakeNames /\ observed.arg # "")
    => LET tr == observed.trace
           probes == OpsOf(tr, "probe")
       IN  /\ Len(OpsOf(tr, "wake")) <= 1
           /\ Len(probes) <= max_retries(observed.fn)
           /\ Len(tr) <= 1 + 2 * max_retries(observed.fn)
           /\ \A i \in 1..Len(tr) :
                 tr[i].op = "probe"
                 => /\ i > 1 /\ tr[i - 1].op = "sleep"
                    /\ HasOp(SubSeq(tr, 1, i - 1), "wake")
                    /\ tr[i].out = "true" => i = Len(tr)
           /\ observed.at = "returned"
              => /\ observed.out \in {"true", "false"}
                 /\ Len(OpsOf(tr, "wake")) = 1
                 /\ observed.slept = Len(probes) * SleepBeforeProbe(observed.fn)
                 /\ observed.out = "true"
                    <=> (tr[Len(tr)].op = "probe" /\ tr[Len(tr)].out = "true")
                 /\ observed.out = "false"
                    => Len(probes) = max_retries(observed.fn)

----------------------------------------------------------------------------
(* C23: the scores of the test queries *)

\* a call of the scorer, enabled and without an embedding backend
HeuristicCall == observed.fn = "score" /\ observed.enabled /\ ~observed.embed_ok

\* C23: with the default threshold 0.7 and no embedding backend,
\* score("show status") < 0.3 and the score of the remote example is >= 0.7;
\* every query that test_semantic_scoring expects on the dev machine scores
\* at or above the threshold and every query it expects local scores below.
C23_TestQueriesScore ==
    HeuristicCall
    => /\ observed.arg.name = "show status"
          => 10 * observed.out < 3 * ScoreScale
       /\ observed.arg = RemoteExample => observed.out >= DefaultThreshold
       /\ \A c \in test_cases :
             observed.arg = c.query
             => (observed.out >= DefaultThreshold <=> c.expected_route_to_dev)

\* the remote example was scored and both kinds of test query exist
C23_Witness ==
    /\ HeuristicCall
    /\ observed.arg = RemoteExample
    /\ observed.out >= DefaultThreshold
    /\ threshold = DefaultThreshold
    /\ \E c \in test_cases : c.expected_route_to_dev
    /\ \E c \in test_cases : ~c.expected_route_to_dev

----------------------------------------------------------------------------
(* C24: readers skip malformed lines *)

\* a line that holds exactly one record of the program
WellFormed(line) == Parseable(line) /\ IsObject(line[1].rec)

\* C24: get_dispatch_stats, reading a log in which some lines are malformed
\* (truncated JSON, a blank line, or a line that parses as JSON but is not a
\* record object), skips those lines and returns the counters computed from
\* the well-formed records; it never returns an error result.
C24_MalformedLinesSkipped ==
    observed.fn = "get_dispatch_stats"
    => LET good == SelectSeq(FileLines(observed.read), WellFormed)
           decisions == SelectSeq(good,
                LAMBDA l : l[1].rec.event_type = "dispatch_decision")
       IN  /\ DOMAIN observed.stats = {"total", "local", "remote", "errors"}
           /\ observed.stats.total = Len(decisions)
           /\ observed.stats.remote =
                Len(SelectSeq(decisions, LAMBDA l : l[1].rec.dest = "dev"))
           /\ observed.stats.local + observed.stats.remote
                = observed.stats.total

----------------------------------------------------------------------------
(* C25: the frame of test_connectivity *)

\* C25: test_connectivity makes one liveness probe and returns (reachable,
\* message); it sets connected to the probe result, last_ping_time to now
\* and fallback_used to false, and never changes failure_count or
\* disabled_until; when remote execution is disabled it returns
\* (False, message) without probing and without changing any state.
C25_ConnectivityFrame ==
    [][ (observed' # observed /\ observed'.fn = "test_connectivity")
        => /\ UNCHANGED <<scorerVars, configVars, now, log, pc, fr, streak,
                          storeVars, appendVars, sideVars>>
           /\ IF REMOTE_ENABLED
              THEN /\ observed'.probes = 1
                   /\ BRIDGE_STATUS'.connected = observed'.ret.ok
                   /\ BRIDGE_STATUS'.last_ping_time = now
                   /\ ~BRIDGE_STATUS'.fallback_used
                   /\ BRIDGE_STATUS'.failure_count = BRIDGE_STATUS.failure_count
                   /\ BRIDGE_STATUS'.disabled_until = BRIDGE_STATUS.disabled_until
                   /\ observed'.ret.message =
                        IF observed'.ret.ok THEN "Remote connection successful"
                        ELSE "Dev machine unreachable"
              ELSE /\ observed'.probes = 0
                   /\ ~observed'.ret.ok
                   /\ observed'.ret.message = "Remote execution disabled in config"
                   /\ UNCHANGED BRIDGE_STATUS ]_vars

\* the probe succeeded while the breaker was open and the breaker is still
\* open, with the failures that opened it
C25_Witness ==
    /\ observed.fn = "test_connectivity"
    /\ observed.ret.ok
    /\ observed.pre.failure_count >= FailureLimit
    /\ observed.pre.disabled_until > observed.at
    /\ now = observed.at
    /\ BRIDGE_STATUS.connected
    /\ BRIDGE_STATUS.failure_count = observed.pre.failure_count
    /\ BRIDGE_STATUS.disabled_until > now

----------------------------------------------------------------------------
(* C26: a failed remote attempt is recorded *)

\* a returned dispatch that chose remote and whose remote attempt failed
C26_Case(p) ==
    /\ pc[p] = "done"
    /\ fr[p].execute_remote
    /\ AttemptFailed(fr[p].events)

\* C26: whenever a dispatch chooses remote and the remote attempt fails (the
\* peer is unreachable, or it is reachable but the remote execution fails by
\* non-zero exit, timeout or transport error), failure_count is incremented
\* by one and, when the dispatch returns, connected = false and
\* fallback_used = true; if failure_count is then >= 3, disabled_until is
\* the time of the failure + 600.
C26_RemoteFailureRecorded ==
    \A p \in Procs :
        C26_Case(p)
        => /\ BRIDGE_STATUS.failure_count = fr[p].pre.failure_count + 1
           /\ ~BRIDGE_STATUS.connected
           /\ BRIDGE_STATUS.fallback_used
           /\ BRIDGE_STATUS.failure_count >= FailureLimit
              => /\ BRIDGE_STATUS.disabled_until >= fr[p].calledAt + CooldownSeconds
                 /\ BRIDGE_STATUS.disabled_until <= fr[p].doneAt + CooldownSeconds

----------------------------------------------------------------------------
(* C27: a successful remote dispatch closes the breaker *)

\* C27: after a dispatch whose remote execution succeeded (result tagged
\* [REMOTE]), with no other dispatch interleaved, the breaker is closed
\* (now >= disabled_until) with failure_count = 0, connected = true and
\* fallback_used = false.
C27_SuccessCloses ==
    \A p \in Procs :
        (pc[p] = "done" /\ fr[p].result.tag = "[REMOTE]")
        => /\ BRIDGE_STATUS.failure_count = 0
           /\ BRIDGE_STATUS.connected
           /\ ~BRIDGE_STATUS.fallback_used
           /\ now >= BRIDGE_STATUS.disabled_until

----------------------------------------------------------------------------
(* C28: the writes of disabled_until *)

\* a step writes disabled_until: its value changes, or the event that
\* line 221 logs right after the write is appended to the log
C28_Wrote ==
    \/ BRIDGE_STATUS'.disabled_until # BRIDGE_STATUS.disabled_until
    \/ \E i \in (Len(log) + 1)..Len(log') :
          log'[i].event_type = "bridge_auto_disabled"

\* C28: every write to disabled_until happens in a state where
\* failure_count >= 3 and sets it to now + 600; so disabled_until is never
\* set while failure_count < 3, is strictly in the future right after each
\* write, and never decreases over any sequence of operations.
C28_CooldownWrites ==
    [][ /\ BRIDGE_STATUS'.disabled_until >= BRIDGE_STATUS.disabled_until
        /\ C28_Wrote
           => /\ BRIDGE_STATUS.failure_count >= FailureLimit
              /\ BRIDGE_STATUS'.failure_count >= FailureLimit
              /\ BRIDGE_STATUS'.disabled_until = now' + CooldownSeconds
              /\ BRIDGE_STATUS'.disabled_until > now' ]_vars

\* the breaker has just been opened again: the write extended a cooldown
\* set by an earlier dispatch
C28_Witness ==
    \E p \in Procs :
        /\ pc[p] = "local"
        /\ fr[p].execute_remote
        /\ fr[p].pre.disabled_until > 0
        /\ BRIDGE_STATUS.disabled_until = now + CooldownSeconds
        /\ BRIDGE_STATUS.disabled_until > fr[p].pre.disabled_until
        /\ BRIDGE_STATUS.failure_count >= FailureLimit

----------------------------------------------------------------------------
(* C29: the breaker closes by the passing of time alone *)

\* C29: a dispatch without force flags is forced local by the breaker iff
\* now < disabled_until at the call; a dispatch made at now >= disabled_until
\* is routed by the score/threshold comparison alone (remote iff score >=
\* threshold and remote enabled), with no half-open trial step and whatever
\* failure_count is.
C29_ImplicitClose ==
    \A p \in Procs :
        (Active(p) /\ NoFlags(fr[p]))
        => /\ fr[p].reason = "Remote delegation temporarily disabled"
              <=> fr[p].calledAt < fr[p].pre.disabled_until
           /\ ~ClosedAtCall(fr[p]) => ~fr[p].execute_remote
           /\ ClosedAtCall(fr[p])
              => /\ fr[p].reason = "Task score vs threshold"
                 /\ fr[p].execute_remote
                    <=> (fr[p].score >= fr[p].threshold /\ REMOTE_ENABLED)

\* the first dispatch after a cooldown, at the instant it expires and with
\* the failures that opened the breaker still counted, is routed remote and
\* goes straight to the ordinary probe and remote execution
C29_Witness ==
    \E p \in Procs :
        /\ pc[p] = "done"
        /\ NoFlags(fr[p])
        /\ fr[p].pre.disabled_until > 0
        /\ fr[p].calledAt = fr[p].pre.disabled_until
        /\ fr[p].pre.failure_count >= FailureLimit
        /\ fr[p].execute_remote
        /\ fr[p].events = <<Ev("probe", "up"), Ev("remote", "ok")>>
        /\ fr[p].result.tag = "[REMOTE]"

----------------------------------------------------------------------------
(* C30: nothing goes to the peer while the breaker is open *)

\* C30: while the breaker is open (now < disabled_until at the call) every
\* accepted dispatch is forced local, for every score and every force-flag
\* setting, force_remote included: it neither probes, wakes nor executes on
\* the remote peer, and it records the reason 'Remote delegation temporarily
\* disabled'.
C30_OpenForcesLocal ==
    \A p \in Procs :
        (Active(p) /\ ~ClosedAtCall(fr[p]))
        => /\ ~fr[p].execute_remote
           /\ fr[p].reason = "Remote delegation temporarily disabled"
           /\ ~HasOp(fr[p].events, "probe")
           /\ ~HasOp(fr[p].events, "wake")
           /\ ~HasOp(fr[p].events, "remote")

----------------------------------------------------------------------------
(* C31: the failures that opened the breaker are still counted when the    *)
(* cooldown has expired                                                    *)

\* every liveness probe of the call found the peer down: the first probe
\* failed and the peer was not woken
AllProbesDown(evs) ==
    /\ ProbesOf(evs) # <<>>
    /\ \A i \in 1..Len(evs) : evs[i].op = "probe" => evs[i].out = "down"

\* the breaker has just been opened: the dispatch of thread p has written
\* disabled_until (219-220) and is about to fall back to local
C31_JustOpened ==
    \E p \in Procs :
        /\ pc[p] = "local"
        /\ fr[p].execute_remote
        /\ AllProbesDown(fr[p].events)
        /\ BreakerTrips(BRIDGE_STATUS)
        /\ BRIDGE_STATUS.disabled_until = now + CooldownSeconds

\* a dispatch has returned the result of the remote executor
C31_RemoteSuccess ==
    \E p \in Procs : pc[p] = "done" /\ fr[p].result.tag = "[REMOTE]"

\* a returned dispatch that was made after a cooldown had expired, chose
\* remote, found the peer unreachable and did not wake it
C31_Case(p) ==
    /\ pc[p] = "done"
    /\ fr[p].execute_remote
    /\ fr[p].pre.disabled_until > 0
    /\ fr[p].calledAt >= fr[p].pre.disabled_until
    /\ AllProbesDown(fr[p].events)

\* C31: failure_count is not reset when the breaker opens nor when the
\* cooldown expires: from the opening of the breaker on, as long as no
\* remote dispatch succeeds, every dispatch made after the cooldown has
\* expired that finds the peer unreachable and does not wake it re-opens the
\* breaker at once, for 600 s from the failure.  (Stated for the runs with
\* no successful remote dispatch at all after the opening, which the claim
\* covers.)
C31_ReopensAfterExpiry ==
    [](C31_JustOpened
       => ([]~C31_RemoteSuccess
           => [](\A p \in Procs :
                    C31_Case(p)
                    => BRIDGE_STATUS.disabled_until
                          >= fr[p].calledAt + CooldownSeconds)))

\* the part of C31 that the program has: a dispatch made after the cooldown
\* with the failures still counted re-opens the breaker with one failure
C31_StillCounted ==
    \A p \in Procs :
        (C31_Case(p) /\ fr[p].pre.failure_count >= FailureLimit)
        => BRIDGE_STATUS.disabled_until >= fr[p].calledAt + CooldownSeconds

\* such a dispatch: it was made at or after the end of the cooldown with
\* three failures counted, and its one failed probe opened the breaker again
C31_StillCountedSeen ==
    \E p \in Procs :
        /\ C31_Case(p)
        /\ NoFlags(fr[p])
        /\ fr[p].pre.failure_count = FailureLimit
        /\ BRIDGE_STATUS.failure_count = FailureLimit + 1
        /\ BRIDGE_STATUS.disabled_until >= fr[p].calledAt + CooldownSeconds

----------------------------------------------------------------------------
(* C32: concurrent failures are all counted *)

\* the dispatch of thread p has returned after it chose remote, found the
\* peer unreachable and did not wake it
C32_Case(p) ==
    /\ pc[p] = "done"
    /\ fr[p].execute_remote
    /\ AllProbesDown(fr[p].events)

\* failure_count before the first of the concurrent calls was made
C32_Previous ==
    CHOOSE n \in {fr[p].pre.failure_count : p \in Procs} :
        \A q \in Procs : n <= fr[q].pre.failure_count

\* C32: when the dispatch_task calls of all threads have run concurrently
\* and each has found the peer unreachable and not woken it, failure_count
\* after all have returned is its value before the calls plus the number of
\* calls (no increment is lost), and the breaker is open (now <
\* disabled_until) if that value is >= 3.
C32_NoLostIncrement ==
    (\A p \in Procs : C32_Case(p))
    => /\ BRIDGE_STATUS.failure_count = C32_Previous + Cardinality(Procs)
       /\ BRIDGE_STATUS.failure_count >= FailureLimit
          => BRIDGE_STATUS.disabled_until > now

----------------------------------------------------------------------------
(* C33: concurrent setters and the persisted scorer configuration *)

\* every set_threshold and set_enabled call that was made has returned
C33_AllReturned == \A p \in Procs : setter[p].at = "idle"

\* C33: concurrent writers of the persisted scorer configuration do not
\* interleave: once the set_threshold and set_enabled calls made on the
\* scorer, in any interleaving, have all returned, semantic_config.json
\* holds the in-memory (enabled, threshold) pair.
C33_PersistedIsCurrent ==
    C33_AllReturned => semantic_config = ConfigDocument(enabled, threshold)

----------------------------------------------------------------------------
(* C34: the decision is on record before anything is tried *)

\* a record of something the dispatch did after deciding: an unreachable
\* bridge, a trip of the breaker, a fallback, an execution or its failure
IsExecutionRecord(r) ==
    r.writer = "log_event" /\ r.event_type # "dispatch_decision"

\* what the log holds of the dispatch thread p is in
C34_Records(p) == SubSeq(log, fr[p].logAt + 1, Len(log))

\* C34: in each dispatch the decision record (reason and intended
\* destination) is appended to the log before the first liveness probe,
\* wake attempt or executor invocation of that dispatch: from its acceptance
\* on it is the first record of the dispatch, while nothing has been tried
\* yet the dispatch has no execution record, and so the decision record
\* precedes every execution record of the dispatch in the log.
C34_DecisionPrecedes ==
    \A p \in Procs :
        Active(p) =>
            /\ C34_Records(p) # <<>>
            /\ Head(C34_Records(p)) =
                    LogEvent("dispatch_decision",
                             IF fr[p].execute_remote THEN "dev" ELSE "local",
                             fr[p].reason)
            /\ fr[p].events = <<>>
                    => SelectSeq(C34_Records(p), IsExecutionRecord) = <<>>
            /\ \A j \in 1..Len(C34_Records(p)) :
                    IsExecutionRecord(C34_Records(p)[j]) => j > 1

\* a dispatch has probed, tried to wake the peer and fallen back to the local
\* executor: its decision for the remote side is the first of its records
\* and the execution records follow
C34_Witness ==
    \E p \in Procs :
        /\ pc[p] = "done"
        /\ HasOp(fr[p].events, "probe")
        /\ HasOp(fr[p].events, "wake")
        /\ HasOp(fr[p].events, "local")
        /\ Head(C34_Records(p)).event_type = "dispatch_decision"
        /\ Head(C34_Records(p)).dest = "dev"
        /\ Len(SelectSeq(C34_Records(p), IsExecutionRecord)) >= 2

----------------------------------------------------------------------------
(* C35: the last record of a dispatch is its outcome *)

\* the outcome event that goes with the tag of a result
C35_OutcomeEvent(tag) ==
    CASE tag = "[LOCAL]" -> "local_execution"
      [] tag = "[LOCAL ERROR]" -> "local_execution_error"
      [] tag = "[REMOTE]" -> "remote_execution"
      [] OTHER -> "no outcome"

\* the executor that ran last in the dispatch of thread p
C35_LastOp(p) == fr[p].events[Len(fr[p].events)]

\* C35: every dispatch that returns has appended, as its last log record, a
\* final outcome record that reflects the destination actually used and its
\* success: local_execution for a [LOCAL] result, local_execution_error for
\* a [LOCAL ERROR] result, remote_execution for a [REMOTE] result, also when
\* the dispatch fell back from remote to local. The executor that ran last
\* is the one the record names.
C35_FinalOutcomeRecorded ==
    \A p \in Procs :
        pc[p] = "done" =>
            /\ Len(log) > fr[p].logAt
            /\ log[Len(log)].writer = "log_event"
            /\ log[Len(log)].event_type = C35_OutcomeEvent(fr[p].result.tag)
            /\ fr[p].events # <<>>
            /\ C35_LastOp(p).op =
                    (IF fr[p].result.tag = "[REMOTE]" THEN "remote" ELSE "local")
            /\ (C35_LastOp(p).out = "ok") =
                    (fr[p].result.tag \in {"[LOCAL]", "[REMOTE]"})

\* a dispatch was sent to the peer, the remote execution failed and the
\* local executor raised: the remote error is in the log and the last record
\* is local_execution_error, as the [LOCAL ERROR] result says
C35_Witness ==
    \E p \in Procs :
        /\ pc[p] = "done"
        /\ fr[p].execute_remote
        /\ HasOp(fr[p].events, "remote")
        /\ fr[p].result.tag = "[LOCAL ERROR]"
        /\ Len(log) >= 2
        /\ log[Len(log)].event_type = "local_execution_error"
        /\ log[Len(log) - 1].event_type \in
                {"remote_execution_error", "remote_execution_timeout",
                 "remote_dispatch_error"}

----------------------------------------------------------------------------
(* C36: a wake signal that could not be sent *)

\* the two coordinators the claim is about
C36_Names == {"attempt_wake_and_retry", "attempt_wake_and_connect"}

\* the position in the trace of a wake signal that could not be sent, or 0
C36_FailedSend(tr) ==
    IF \E i \in 1..Len(tr) : tr[i].op = "wake" /\ SignalsSent(tr[i].out) = 0
    THEN CHOOSE i \in 1..Len(tr) :
            tr[i].op = "wake" /\ SignalsSent(tr[i].out) = 0
    ELSE 0

\* the probes a call made after position i of its trace
C36_ProbesAfter(tr, i) == OpsOf(SubSeq(tr, i + 1, Len(tr)), "probe")

\* C36: a failure to transmit the wake signal does not abort the wake
\* sequence, in attempt_wake_and_retry and in attempt_wake_and_connect
\* alike: a call whose wake signal could not be sent has, when it returns,
\* made its retry probes, and it returns false only after all of them have
\* failed.
C36_SendFailureNotAborting ==
    (/\ observed.fn \in C36_Names
     /\ observed.at = "returned"
     /\ C36_FailedSend(observed.trace) > 0)
    => LET after == C36_ProbesAfter(observed.trace,
                                    C36_FailedSend(observed.trace))
       IN  /\ after # <<>>
           /\ observed.out \in {"true", "false"}
           /\ observed.out = "false"
              => /\ Len(after) = max_retries(observed.fn)
                 /\ \A i \in 1..Len(after) : after[i].out = "false"

\* the same for the dispatcher's coordinator alone
C36_DispatcherOnly ==
    observed.fn = "attempt_wake_and_retry" => C36_SendFailureNotAborting

\* the dispatcher's coordinator could not send the packet, slept, probed
\* and returned what the probe said
C36_DispatcherSeen ==
    /\ observed.fn = "attempt_wake_and_retry"
    /\ observed.at = "returned"
    /\ C36_FailedSend(observed.trace) > 0
    /\ Len(C36_ProbesAfter(observed.trace, 1)) = 1

----------------------------------------------------------------------------
(* C37: container keywords and the light-keyword penalty *)

\* the numbers of heavy keywords found in the texts that are scored
C37_HeavyCounts == {u.heavy : u \in ScoreTexts}

\* what the container keywords of t add to the sum when t has h heavy
\* keywords: the sum for t less the sum for the same text without them
C37_Boost(t, h, emb) ==
    RawScore([t EXCEPT !.heavy = h, !.light = 0], emb)
    - RawScore([t EXCEPT !.heavy = h, !.light = 0, !.container = 0], emb)

\* C37: for every text that contains at least one container-routing
\* keyword, the light-keyword penalty is not applied (the score equals the
\* score computed with zero light-keyword matches), and the container
\* keywords add a positive boost of their own, independent of the
\* heavy-keyword contribution (the same amount whatever the number of heavy
\* keywords).
C37_ContainerSuppressesLight ==
    (observed.fn = "score" /\ observed.arg.container > 0)
    => LET t == observed.arg
           emb == observed.embed_ok
       IN  /\ observed.out =
                score([t EXCEPT !.light = 0], observed.enabled, emb)
           /\ RawScore(t, emb) = RawScore([t EXCEPT !.light = 0], emb)
           /\ C37_Boost(t, t.heavy, emb) > 0
           /\ \A h \in C37_HeavyCounts :
                    C37_Boost(t, h, emb) = C37_Boost(t, t.heavy, emb)

\* "check container status" was scored by the enabled scorer: two light
\* keywords, one container keyword, and the score is that of the text
\* without light keywords, above the score of "simple hello world"
C37_Witness ==
    /\ observed.fn = "score"
    /\ observed.enabled
    /\ observed.arg.name = "check container status"
    /\ observed.arg.light = 2
    /\ observed.arg.container = 1
    /\ observed.out > 0
    /\ observed.out = score([observed.arg EXCEPT !.light = 0], TRUE,
                            observed.embed_ok)

----------------------------------------------------------------------------
(* C38: a dispatch is bounded and ends *)

\* thread p is inside dispatch_task, its result not yet produced
C38_Running(p) == pc[p] \in {"probe", "wake", "remote", "local"}

\* at most two probes, one wake attempt, one remote and one local execution,
\* and nothing is run on the peer after the remote execution
C38_Bounded(p) ==
    LET evs == fr[p].events
    IN  /\ Len(OpsOf(evs, "probe")) <= 2
        /\ Len(OpsOf(evs, "wake")) <= 1
        /\ Len(OpsOf(evs, "remote")) <= 1
        /\ Len(OpsOf(evs, "local")) <= 1
        /\ \A i \in 1..Len(evs) :
                evs[i].op = "remote"
                => \A j \in (i + 1)..Len(evs) : evs[j].op = "local"
        /\ (HasOp(evs, "remote") /\ pc[p] # "done") => pc[p] = "local"

\* C38: every dispatch_task call terminates after at most two liveness
\* probes, at most one wake attempt, at most one remote execution and at
\* most one local execution; the remote executor is run at most once per
\* dispatch and is never retried after it fails (what follows a failed
\* remote execution is the local executor, once), and every call that was
\* accepted produces its result.
C38_Terminates ==
    /\ [](\A p \in Procs : C38_Bounded(p))
    /\ \A p \in Procs : C38_Running(p) ~> pc[p] = "done"

\* a dispatch used everything it may: probe, wake, second probe, a remote
\* execution that failed and one local execution, and has its result
C38_Witness ==
    \E p \in Procs :
        /\ pc[p] = "done"
        /\ Len(OpsOf(fr[p].events, "probe")) = 2
        /\ Len(OpsOf(fr[p].events, "wake")) = 1
        /\ Len(OpsOf(fr[p].events, "remote")) = 1
        /\ Len(OpsOf(fr[p].events, "local")) = 1

----------------------------------------------------------------------------
(* C39: a dispatch routed local leaves the bridge state alone *)

\* thread p is in, or has finished, a dispatch that was routed local when
\* it was decided
C39_RoutedLocal(p) == Active(p) /\ ~fr[p].execute_remote

\* C39: a dispatch_task call that is routed local at decision time - by
\* force_local, by a score below the threshold, by remote being disabled or
\* by the open breaker - leaves every field of BRIDGE_STATUS unchanged
\* (connected, last_ping_time, fallback_used, failure_count,
\* disabled_until): from the decision to the result BRIDGE_STATUS is what it
\* was when the call was made, the call makes no probe, no wake attempt and
\* no remote execution, and a dispatch made during the cooldown neither
\* extends it nor counts as a failure.
C39_LocalLeavesBridge ==
    \A p \in Procs :
        C39_RoutedLocal(p) =>
            /\ BRIDGE_STATUS = fr[p].pre
            /\ \A i \in 1..Len(fr[p].events) : fr[p].events[i].op = "local"
            /\ fr[p].reason = "Remote delegation temporarily disabled"
               => /\ BRIDGE_STATUS.disabled_until = fr[p].pre.disabled_until
                  /\ BRIDGE_STATUS.failure_count = fr[p].pre.failure_count

\* a dispatch made while the breaker was open has produced its local result:
\* three failures are on the count and the cooldown ends when it did
C39_Witness ==
    \E p \in Procs :
        /\ pc[p] = "done"
        /\ ~fr[p].execute_remote
        /\ fr[p].reason = "Remote delegation temporarily disabled"
        /\ fr[p].result.tag = "[LOCAL]"
        /\ BRIDGE_STATUS.failure_count >= FailureLimit
        /\ BRIDGE_STATUS.disabled_until > now
        /\ BRIDGE_STATUS = fr[p].pre

\* the other three ways to the local side have each produced a result
C39_ForcedSeen ==
    \E p \in Procs :
        pc[p] = "done" /\ fr[p].force_local /\ ~fr[p].execute_remote
C39_BelowThresholdSeen ==
    \E p \in Procs :
        /\ pc[p] = "done" /\ ~fr[p].force_local /\ ~fr[p].execute_remote
        /\ REMOTE_ENABLED /\ fr[p].score < fr[p].threshold
        /\ fr[p].reason = "Task score vs threshold"
C39_RemoteDisabledSeen ==
    \E p \in Procs :
        /\ pc[p] = "done" /\ ~fr[p].force_local /\ ~fr[p].execute_remote
        /\ ~REMOTE_ENABLED /\ fr[p].score >= fr[p].threshold

----------------------------------------------------------------------------
(* C40: the statistics logger completes a query once *)

\* entry k of qs is started with this id and not completed, and no later
\* entry of qs is
C40_LastOpen(qs, id, k) ==
    /\ k \in 1..Len(qs)
    /\ qs[k].query_id = id
    /\ ~qs[k].has_duration
    /\ \A j \in (k + 1)..Len(qs) :
            ~(qs[j].query_id = id /\ ~qs[j].has_duration)

\* qs has a started entry with this id that is not completed
C40_HasOpen(qs, id) ==
    \E i \in 1..Len(qs) : qs[i].query_id = id /\ ~qs[i].has_duration

\* what log_query_complete has done when it is about to return
C40_Completion(c) ==
    IF C40_HasOpen(c.pre_queries, c.query_id)
    THEN /\ c.ret = "entry"
         /\ C40_LastOpen(c.pre_queries, c.query_id, c.found)
         /\ Len(recent_queries) = Len(c.pre_queries)
         /\ \A i \in 1..Len(recent_queries) :
                recent_queries[i] =
                    IF i = c.found
                    THEN [c.pre_queries[i] EXCEPT
                            !.has_duration = TRUE,
                            !.actual_destination = c.destination]
                    ELSE c.pre_queries[i]
         /\ stats_file = Append(c.pre_file, recent_queries[c.found])
    ELSE /\ c.ret = "None"
         /\ recent_queries = c.pre_queries
         /\ stats_file = c.pre_file

\* what get_recent_stats has counted when it is about to return
C40_Count(c) ==
    /\ c.total_queries =
            Cardinality({i \in 1..Len(recent_queries) :
                            recent_queries[i].has_duration})
    /\ c.total_queries = Len(stats_file)

C40_NoneSeen ==
    \E p \in Procs :
        /\ caller[p].fn = "log_query_complete"
        /\ caller[p].at = "release"
        /\ caller[p].ret = "None"
        /\ recent_queries # <<>>

\* get_recent_stats has counted fewer entries than were started
C40_CountSeen ==
    \E p \in Procs :
        /\ caller[p].fn = "get_recent_stats"
        /\ caller[p].at = "release"
        /\ caller[p].total_queries >= 1
        /\ caller[p].total_queries < Len(recent_queries)

====
